---- MODULE Spec2Model ----
(***************************************************************************)
(* Model of the solitaire_v1 ranking contract (src/vite.config.ts, Cairo   *)
(* section): owner-gated administration, per-epoch player ledgers, the     *)
(* streak counter, the points formula and the two bounded Top-10 boards.   *)
(* Every external function is one action.  A panic (a failed assert, a     *)
(* checked-arithmetic overflow, a failed syscall) reverts the transaction: *)
(* storage keeps its old value and no event is emitted.                    *)
(***************************************************************************)
EXTENDS Integers, Sequences, FiniteSets, TLC

VARIABLES
    owner, version, paused, epoch, class_hash,
    daily_seed,
    best_points, best_all_time, points_total, points_by_day,
    streak, last_day_played,
    leaderboard, leaderboard_len, leaderboard_alltime, leaderboard_alltime_len,
    events,       \* the events emitted by the latest transaction
    last,         \* the latest call: [op, caller, args, panic] ("" = it succeeded)
    accepted,     \* history: <<epoch, player, day, time_sec, moves>> of every
                  \* submit_result transaction that did not revert
    run,          \* history: per <<epoch, player>>, the <<time_sec, moves>> accepted
                  \* since the player's latest change of day
    best_entry,   \* history: per <<epoch, player, day>>, the entry that set best_points
    delta_sum,    \* history: per <<epoch, player>>, the sum of the deltas that the
                  \* player's ResultSubmitted events reported
    day_runs,     \* history: per <<epoch, player>>, the days of the player's accepted
                  \* submissions in order, a day repeated at once written once
    compared,     \* the entries better_than was applied to, and its results
    scored,       \* the call of calc_points made by the latest transaction:
                  \* [time_sec, moves, streak, res], or NoCall
    budget,       \* submit_result transactions the model still lets through
    \* The client page (src/src/App.tsx), its React state:
    game,         \* history.present.game: [stock, waste, foundations, tableau]
    history_moves, \* history.present.moves
    selected,     \* the selected PileRef, or NoSelection (null)
    startTime,    \* Date.now() when the game started, in ms
    clock,        \* Date.now(), in ms since the page was opened
    submitStatus, \* "idle" | "submitting" | "success" | "error"
    submitTx,     \* the hash of the submitted transaction, or Null
    submitError,  \* the message of the failed submission, or Null
    calls,        \* the contract.submit_result calls the page awaits:
                  \* [day, timeSec, moves]
    ui            \* the latest handler of the page: [op, from, to, tried, moved]

storageVars ==
    << owner, version, paused, epoch, class_hash, daily_seed,
       best_points, best_all_time, points_total, points_by_day,
       streak, last_day_played,
       leaderboard, leaderboard_len, leaderboard_alltime, leaderboard_alltime_len >>

clientVars ==
    << game, history_moves, selected, startTime, clock, submitStatus, submitTx, submitError,
       calls, ui >>

vars ==
    << storageVars, events, last, accepted, run, best_entry, delta_sum, day_runs,
       compared, scored, budget, clientVars >>

----------------------------------------------------------------------------
(* Program constants *)

TopN == 10
MaxTimeSec == 86400
MaxMoves == 500
U16Max == 65535
InitialVersion == 2
KingRank == 13
FullPile == 13

(* Bounds of the model *)

MaxEpoch == 1
MaxSubmits == 1
MaxPlaySubmits == 3
MaxFullSubmits == 3
MaxEpochSubmits == 2
MaxFrameSubmits == 2
MaxStreakSubmits == 2
NumSuits == 2
MaxRank == 3
NumColumns == 3
NumFoundations == 2
MaxGameMoves == 6
MaxClientSubmits == 2
MaxCalls == 2

(* Inputs *)

ZeroAddress == 0
Callers == {1, 2}
Days == {0, 1, 2}
AdminDays == {1, 2}
Deployers == {1}
(* <<time_sec, moves>> of a submission: valid results, and one input       *)
(* beyond each bound of calc_points.                                       *)
ValidResults == {<<60, 50>>, <<3000, 50>>}
InvalidResults == {<<0, 50>>, <<86401, 50>>, <<60, 0>>, <<60, 501>>}
Results == {<<60, 50>>} \cup InvalidResults
(* Players 3..12 fill a day's board before the callers act (SpecFull):     *)
(* <<player, time_sec, moves>>, submitted in this order for FullDay.       *)
FullDays == {1, 2}
FullDay == CHOOSE d \in FullDays : \A e \in FullDays : d <= e
FullCallers == {1, 2, 3}
FullResults == {<<60, 50>>, <<3000, 500>>}
PrefillRuns ==
    << <<3, 3000, 500>>, <<4, 3000, 400>>, <<5, 3600, 50>>, <<6, 3000, 50>>,
       <<7, 2000, 50>>, <<8, 1000, 50>>, <<9, 500, 50>>, <<10, 60, 50>>,
       <<11, 30, 20>>, <<12, 3000, 450>> >>
PrefillLens == {9, 10}
Players == Callers \cup FullCallers \cup {PrefillRuns[i][1] : i \in 1..Len(PrefillRuns)}
SeedDays == {1}
(* Arguments of calc_points: each side of every bound and of every clamp.  *)
ScoreTimes == {0, 1, 2, 60, 2999, 3000, 3001, 86400, 86401}
ScoreMoves == {0, 1, 50, 399, 400, 401, 500, 501}
ScoreStreaks == {0, 1, 9, 10, 11, 65535}
(* Arguments of better_than: two values of each field it reads. *)
(* A player who has alternated between two days (SpecStreak): the days,    *)
(* the <<time_sec, moves>> of each submission, the number of submissions   *)
(* replayed call by call, and the numbers of submissions made in all.  Of  *)
(* the days played before, the history keeps the last VeteranWarmup.       *)
VeteranDays == <<1, 2>>
VeteranResult == <<60, 50>>
VeteranWarmup == 12
VeteranSubmits == {U16Max - 1, U16Max}
ComparePoints == {10500, 20349}
CompareTimes == {60, 3000}
CompareMoves == {50, 500}
Seeds == {0, 7}
(* Seeds of the card game: getDailySeed(), getRandomSeed(). *)
GameSeeds == {20261101, 20261102}
(* The page: the days getDailySeed() gives, the values Date.now() takes    *)
(* (ms since the page was opened), the moves of a game just won, the       *)
(* transaction hashes and the error messages the wallet answers with.      *)
ClientDays == {20261101}
ClockValues == {300000, 86400000, 86400999, 86401000}
WonMoves == {140, 500, 501}
TxHashes == {"0x1"}
ErrorMessages == {"User abort"}
ClassHashes == {1}

----------------------------------------------------------------------------
(* Storage maps: every key reads as the zero value until it is written.    *)

EmptyMap == [k \in {} |-> 0]

MapRead(m, k, zero) == IF k \in DOMAIN m THEN m[k] ELSE zero

MapWrite(m, k, v, zero) ==
    IF v = zero
    THEN [x \in DOMAIN m \ {k} |-> m[x]]
    ELSE [x \in DOMAIN m \cup {k} |-> IF x = k THEN v ELSE m[x]]

ZeroEntry == [player |-> ZeroAddress, points |-> 0, time_sec |-> 0, moves |-> 0]

Entry(player, points, time_sec, moves) ==
    [player |-> player, points |-> points, time_sec |-> time_sec, moves |-> moves]

(* The contract's storage as one value, the argument `self` of the code.   *)
Storage ==
    [ owner |-> owner, version |-> version, paused |-> paused, epoch |-> epoch,
      class_hash |-> class_hash, daily_seed |-> daily_seed,
      best_points |-> best_points, best_all_time |-> best_all_time,
      points_total |-> points_total, points_by_day |-> points_by_day,
      streak |-> streak, last_day_played |-> last_day_played,
      leaderboard |-> leaderboard, leaderboard_len |-> leaderboard_len,
      leaderboard_alltime |-> leaderboard_alltime,
      leaderboard_alltime_len |-> leaderboard_alltime_len ]

constructor(owner_) ==
    [ owner |-> owner_, version |-> InitialVersion, paused |-> FALSE, epoch |-> 0,
      class_hash |-> 0, daily_seed |-> EmptyMap,
      best_points |-> EmptyMap, best_all_time |-> EmptyMap,
      points_total |-> EmptyMap, points_by_day |-> EmptyMap,
      streak |-> EmptyMap, last_day_played |-> EmptyMap,
      leaderboard |-> EmptyMap, leaderboard_len |-> EmptyMap,
      leaderboard_alltime |-> EmptyMap, leaderboard_alltime_len |-> EmptyMap ]

(* Events *)

ResultSubmitted(player, day, new_points, delta, total_points, time_sec, moves) ==
    [ type |-> "ResultSubmitted", player |-> player, day |-> day,
      new_points |-> new_points, delta |-> delta, total_points |-> total_points,
      time_sec |-> time_sec, moves |-> moves ]

LeaderboardUpdated(day, idx, player, points) ==
    [ type |-> "LeaderboardUpdated", day |-> day, idx |-> idx,
      player |-> player, points |-> points ]

(* The outcome of running a function body on storage st. *)
Ok(st, evs) == [st |-> st, events |-> evs, panic |-> ""]
Panic(st, msg) == [st |-> st, events |-> <<>>, panic |-> msg]

----------------------------------------------------------------------------
(* Auth *)

(* Mutant: any caller passes. *)
only_owner_anyone(st, caller) == TRUE

only_owner(st, caller) == caller = st.owner

(* Admin *)

set_owner(st, caller, new_owner) ==
    IF ~only_owner(st, caller) THEN Panic(st, "NOT_OWNER")
    ELSE Ok([st EXCEPT !.owner = new_owner], <<>>)

set_paused(st, caller, p) ==
    IF ~only_owner(st, caller) THEN Panic(st, "NOT_OWNER")
    ELSE Ok([st EXCEPT !.paused = p], <<>>)

upgrade(st, caller, new_class_hash, syscall_ok) ==
    IF ~only_owner(st, caller) THEN Panic(st, "NOT_OWNER")
    ELSE IF ~syscall_ok THEN Panic(st, "UPGRADE_FAILED")
    ELSE Ok([st EXCEPT !.class_hash = new_class_hash], <<>>)

(* Mutant: the epoch is not incremented. *)
reset_scores_keeps_epoch(st, caller) ==
    IF ~only_owner(st, caller) THEN Panic(st, "NOT_OWNER")
    ELSE Ok([st EXCEPT !.paused = FALSE], <<>>)

(* Mutant: the reset deletes the totals and the all-time boards. *)
reset_scores_wiping(st, caller) ==
    IF ~only_owner(st, caller) THEN Panic(st, "NOT_OWNER")
    ELSE IF st.epoch + 1 > U16Max THEN Panic(st, "u16_add Overflow")
    ELSE Ok([st EXCEPT !.epoch = st.epoch + 1, !.paused = FALSE,
                       !.points_total = EmptyMap,
                       !.leaderboard_alltime_len = EmptyMap], <<>>)

reset_scores(st, caller) ==
    IF ~only_owner(st, caller) THEN Panic(st, "NOT_OWNER")
    ELSE IF st.epoch + 1 > U16Max THEN Panic(st, "u16_add Overflow")
    ELSE Ok([st EXCEPT !.epoch = st.epoch + 1, !.paused = FALSE], <<>>)

set_daily_seed(st, caller, day, seed) ==
    IF ~only_owner(st, caller) THEN Panic(st, "NOT_OWNER")
    ELSE Ok([st EXCEPT !.daily_seed = MapWrite(st.daily_seed, day, seed, 0)], <<>>)

(* Views *)

get_daily_seed(st, day) == MapRead(st.daily_seed, day, 0)
get_epoch(st) == st.epoch
is_paused(st) == st.paused
get_my_best(st, player, day) == MapRead(st.best_points, <<st.epoch, player, day>>, 0)
get_my_total(st, player) == MapRead(st.points_total, <<st.epoch, player>>, 0)
get_leaderboard_len(st, day) == MapRead(st.leaderboard_len, <<st.epoch, day>>, 0)
get_top_entry(st, day, idx) == MapRead(st.leaderboard, <<st.epoch, day, idx>>, ZeroEntry)
get_alltime_len(st) == MapRead(st.leaderboard_alltime_len, <<st.epoch>>, 0)
get_alltime_top_entry(st, idx) == MapRead(st.leaderboard_alltime, <<st.epoch, idx>>, ZeroEntry)

----------------------------------------------------------------------------
(* Points formula (V1) *)

(* What a call of calc_points leaves: the panic message ("" when it        *)
(* returns), the value returned, and the value of every local it computed. *)
calc_steps(time_penalty, tb2, move_penalty, mb2, mult, sum) ==
    [ panic |-> "", value |-> (sum * mult) \div 100,
      time_penalty |-> time_penalty, tb2 |-> tb2,
      move_penalty |-> move_penalty, mb2 |-> mb2,
      mult |-> mult, sum |-> sum, product |-> sum * mult ]

calc_panic(msg) ==
    [ panic |-> msg, value |-> 0, time_penalty |-> 0, tb2 |-> 0,
      move_penalty |-> 0, mb2 |-> 0, mult |-> 0, sum |-> 0, product |-> 0 ]

(* Mutant: the inputs are not validated. *)
calc_points_unchecked(time_sec, moves, streak_) ==
    LET tb2 == IF time_sec * 2 >= 6000 THEN 0 ELSE 6000 - time_sec * 2
        mb2 == IF moves * 10 >= 4000 THEN 0 ELSE 4000 - moves * 10
        s == IF streak_ > 10 THEN 10 ELSE streak_
    IN  calc_steps(time_sec * 2, tb2, moves * 10, mb2, 100 + s * 5, 10000 + tb2 + mb2)

(* Mutant: the streak is not capped at 10. *)
calc_points_uncapped_streak(time_sec, moves, streak_) ==
    LET tb2 == IF time_sec * 2 >= 6000 THEN 0 ELSE 6000 - time_sec * 2
        mb2 == IF moves * 10 >= 4000 THEN 0 ELSE 4000 - moves * 10
    IN  IF ~(time_sec > 0) THEN calc_panic("BAD_TIME")
        ELSE IF ~(time_sec <= MaxTimeSec) THEN calc_panic("TIME_TOO_BIG")
        ELSE IF ~(moves > 0) THEN calc_panic("BAD_MOVES")
        ELSE IF ~(moves <= MaxMoves) THEN calc_panic("MOVES_TOO_BIG")
        ELSE calc_steps(time_sec * 2, tb2, moves * 10, mb2, 100 + streak_ * 5,
                        10000 + tb2 + mb2)

(* Mutant: the time penalty is added as the bonus. *)
calc_points_penalty_as_bonus(time_sec, moves, streak_) ==
    LET tb2 == IF time_sec * 2 >= 6000 THEN 0 ELSE time_sec * 2
        mb2 == IF moves * 10 >= 4000 THEN 0 ELSE 4000 - moves * 10
        s == IF streak_ > 10 THEN 10 ELSE streak_
    IN  IF ~(time_sec > 0) THEN calc_panic("BAD_TIME")
        ELSE IF ~(time_sec <= MaxTimeSec) THEN calc_panic("TIME_TOO_BIG")
        ELSE IF ~(moves > 0) THEN calc_panic("BAD_MOVES")
        ELSE IF ~(moves <= MaxMoves) THEN calc_panic("MOVES_TOO_BIG")
        ELSE calc_steps(time_sec * 2, tb2, moves * 10, mb2, 100 + s * 5, 10000 + tb2 + mb2)

(* Mutant: the bonus subtractions are not guarded. *)
calc_points_unguarded(time_sec, moves, streak_) ==
    LET tb2 == 6000 - time_sec * 2
        mb2 == 4000 - moves * 10
        s == IF streak_ > 10 THEN 10 ELSE streak_
    IN  IF ~(time_sec > 0) THEN calc_panic("BAD_TIME")
        ELSE IF ~(time_sec <= MaxTimeSec) THEN calc_panic("TIME_TOO_BIG")
        ELSE IF ~(moves > 0) THEN calc_panic("BAD_MOVES")
        ELSE IF ~(moves <= MaxMoves) THEN calc_panic("MOVES_TOO_BIG")
        ELSE calc_steps(time_sec * 2, tb2, moves * 10, mb2, 100 + s * 5, 10000 + tb2 + mb2)

calc_points(time_sec, moves, streak_) ==
    LET base == 10000
        max_time_bonus == 6000
        time_penalty_per_sec == 2
        max_move_bonus == 4000
        move_penalty_per_move == 10
        time_penalty == time_sec * time_penalty_per_sec
        tb2 == IF time_penalty >= max_time_bonus THEN 0 ELSE max_time_bonus - time_penalty
        move_penalty == moves * move_penalty_per_move
        mb2 == IF move_penalty >= max_move_bonus THEN 0 ELSE max_move_bonus - move_penalty
        s == IF streak_ > 10 THEN 10 ELSE streak_
        mult == 100 + s * 5
        sum == base + tb2 + mb2
    IN  IF ~(time_sec > 0) THEN calc_panic("BAD_TIME")
        ELSE IF ~(time_sec <= MaxTimeSec) THEN calc_panic("TIME_TOO_BIG")
        ELSE IF ~(moves > 0) THEN calc_panic("BAD_MOVES")
        ELSE IF ~(moves <= MaxMoves) THEN calc_panic("MOVES_TOO_BIG")
        ELSE calc_steps(time_penalty, tb2, move_penalty, mb2, mult, sum)

(* The client's preview of the score (src/src/App.tsx, calcSessionScore).  *)
(* Its arguments are integers here, on which Math.floor(x) is x; sum * mult *)
(* is below 2^53 and its quotient by 100 is at least 1/100 away from the   *)
(* next integer, so Math.floor of the floating-point quotient is the       *)
(* integer quotient.                                                       *)

MathMin(a, b) == IF a < b THEN a ELSE b
MathMax(a, b) == IF a > b THEN a ELSE b

(* Mutant: the score is rounded to the nearest integer. *)
calcSessionScore_rounded(timeSec, moves, streak_) ==
    LET safeTime == MathMin(86400, MathMax(1, timeSec))
        safeMoves == MathMin(500, MathMax(1, moves))
        safeStreak == MathMin(10, MathMax(0, streak_))
        timePenalty == safeTime * 2
        timeBonus == IF timePenalty >= 6000 THEN 0 ELSE 6000 - timePenalty
        movePenalty == safeMoves * 10
        moveBonus == IF movePenalty >= 4000 THEN 0 ELSE 4000 - movePenalty
        mult == 100 + safeStreak * 5
        sum == 10000 + timeBonus + moveBonus
    IN  (sum * mult + 50) \div 100

calcSessionScore(timeSec, moves, streak_) ==
    LET safeTime == MathMin(86400, MathMax(1, timeSec))
        safeMoves == MathMin(500, MathMax(1, moves))
        safeStreak == MathMin(10, MathMax(0, streak_))
        base == 10000
        maxTimeBonus == 6000
        timePenaltyPerSec == 2
        maxMoveBonus == 4000
        movePenaltyPerMove == 10
        timePenalty == safeTime * timePenaltyPerSec
        timeBonus == IF timePenalty >= maxTimeBonus THEN 0 ELSE maxTimeBonus - timePenalty
        movePenalty == safeMoves * movePenaltyPerMove
        moveBonus == IF movePenalty >= maxMoveBonus THEN 0 ELSE maxMoveBonus - movePenalty
        mult == 100 + safeStreak * 5
        sum == base + timeBonus + moveBonus
    IN  (sum * mult) \div 100

(* Streak update *)

(* Mutant: a repeat submission of the same day counts as a new day. *)
update_streak_every_time(st, player, day) ==
    LET ep == st.epoch
        lastd == MapRead(st.last_day_played, <<ep, player>>, 0)
        cur == MapRead(st.streak, <<ep, player>>, 0)
        new_streak == IF lastd = 0 THEN 1 ELSE cur + 1
    IN  [ st |-> [st EXCEPT
              !.streak = MapWrite(st.streak, <<ep, player>>, new_streak, 0),
              !.last_day_played = MapWrite(st.last_day_played, <<ep, player>>, day, 0)],
          ret |-> new_streak, panic |-> "" ]

(* Mutant: the streak restarts unless the day follows the last day played. *)
update_streak_calendar(st, player, day) ==
    LET ep == st.epoch
        lastd == MapRead(st.last_day_played, <<ep, player>>, 0)
        cur == MapRead(st.streak, <<ep, player>>, 0)
        new_streak == IF lastd = 0 \/ day # lastd + 1 THEN 1 ELSE cur + 1
    IN  IF lastd = day THEN [st |-> st, ret |-> cur, panic |-> ""]
        ELSE [ st |-> [st EXCEPT
                   !.streak = MapWrite(st.streak, <<ep, player>>, new_streak, 0),
                   !.last_day_played = MapWrite(st.last_day_played, <<ep, player>>, day, 0)],
               ret |-> new_streak, panic |-> "" ]

(* Mutant: the streak from before the update is returned. *)
update_streak_returns_old(st, player, day) ==
    LET ep == st.epoch
        lastd == MapRead(st.last_day_played, <<ep, player>>, 0)
        cur == MapRead(st.streak, <<ep, player>>, 0)
        new_streak == IF lastd = 0 THEN 1 ELSE cur + 1
    IN  IF lastd = day THEN [st |-> st, ret |-> cur, panic |-> ""]
        ELSE [ st |-> [st EXCEPT
                   !.streak = MapWrite(st.streak, <<ep, player>>, new_streak, 0),
                   !.last_day_played = MapWrite(st.last_day_played, <<ep, player>>, day, 0)],
               ret |-> cur, panic |-> "" ]

update_streak(st, player, day) ==
    LET ep == st.epoch
        lastd == MapRead(st.last_day_played, <<ep, player>>, 0)
        cur == MapRead(st.streak, <<ep, player>>, 0)
        new_streak == IF lastd = 0 THEN 1 ELSE cur + 1
    IN  IF lastd = day THEN [st |-> st, ret |-> cur, panic |-> ""]
        ELSE IF new_streak > U16Max THEN [st |-> st, ret |-> 0, panic |-> "u16_add Overflow"]
        ELSE [ st |-> [st EXCEPT
                   !.streak = MapWrite(st.streak, <<ep, player>>, new_streak, 0),
                   !.last_day_played = MapWrite(st.last_day_played, <<ep, player>>, day, 0)],
               ret |-> new_streak, panic |-> "" ]

(* Leaderboard compare (tie-break) *)

(* Mutant: entries equal in points and time are not told apart. *)
better_than_ignores_moves(a, b) ==
    IF a.points # b.points THEN a.points > b.points
    ELSE IF a.time_sec # b.time_sec THEN a.time_sec < b.time_sec
    ELSE FALSE

better_than(a, b) ==
    IF a.points # b.points THEN a.points > b.points
    ELSE IF a.time_sec # b.time_sec THEN a.time_sec < b.time_sec
    ELSE IF a.moves # b.moves THEN a.moves < b.moves
    ELSE FALSE

(* better_than applied to three entries each way the order laws need. *)
compare_call(a, b, c) ==
    [ a |-> a, b |-> b, c |-> c,
      aa |-> better_than(a, a), ab |-> better_than(a, b), ba |-> better_than(b, a),
      bc |-> better_than(b, c), ac |-> better_than(a, c) ]

NoCompare == compare_call(ZeroEntry, ZeroEntry, ZeroEntry)

----------------------------------------------------------------------------
(* Top-10 insertion.  A board is the slots pfx \o <<0>> .. pfx \o <<9>> of  *)
(* an Entry map, pfx = <<epoch, day>> (daily) or <<epoch>> (all-time), and *)
(* its stored length.  The loops of the code are the recursions below.     *)

(* Mutant: the player's previous entry is never found. *)
find_player_never(lb, pfx, i, len, player) == len

RECURSIVE find_player(_, _, _, _, _)
(* `while i < len`: the first index whose entry is the player's, or len.   *)
find_player(lb, pfx, i, len, player) ==
    IF i < len
    THEN IF MapRead(lb, Append(pfx, i), ZeroEntry).player = player
         THEN i
         ELSE find_player(lb, pfx, i + 1, len, player)
    ELSE len

(* Mutant: the entries after the removed one are not moved up. *)
shift_left_none(lb, pfx, j, len) == lb

RECURSIVE shift_left(_, _, _, _)
(* `while j + 1 < len`: slot j takes slot j+1.                             *)
shift_left(lb, pfx, j, len) ==
    IF j + 1 < len
    THEN shift_left(MapWrite(lb, Append(pfx, j),
                             MapRead(lb, Append(pfx, j + 1), ZeroEntry), ZeroEntry),
                    pfx, j + 1, len)
    ELSE lb

(* Mutant: the scan never finds a beaten entry, the new one is appended. *)
find_insert_pos_append(lb, pfx, pos, len, entry) == len

RECURSIVE find_insert_pos_beats_ties(_, _, _, _, _)
(* Mutant: the scan stops at the first entry that does not beat the new one. *)
find_insert_pos_beats_ties(lb, pfx, pos, len, entry) ==
    IF pos < len
    THEN IF ~better_than(MapRead(lb, Append(pfx, pos), ZeroEntry), entry)
         THEN pos
         ELSE find_insert_pos_beats_ties(lb, pfx, pos + 1, len, entry)
    ELSE len

RECURSIVE find_insert_pos(_, _, _, _, _)
(* `while pos < len`: the first index whose entry the new one beats, or len. *)
find_insert_pos(lb, pfx, pos, len, entry) ==
    IF pos < len
    THEN IF better_than(entry, MapRead(lb, Append(pfx, pos), ZeroEntry))
         THEN pos
         ELSE find_insert_pos(lb, pfx, pos + 1, len, entry)
    ELSE len

(* Mutant: the tail is not shifted, the new entry overwrites slot pos. *)
shift_right_skipped(lb, pfx, k, pos) == lb

RECURSIVE shift_right(_, _, _, _)
(* `while k > pos`: slot k takes slot k-1.                                 *)
shift_right(lb, pfx, k, pos) ==
    IF k > pos
    THEN shift_right(MapWrite(lb, Append(pfx, k),
                              MapRead(lb, Append(pfx, k - 1), ZeroEntry), ZeroEntry),
                     pfx, k - 1, pos)
    ELSE lb

(* `let mut len = ...read(...); if len > 10 { len = 10 }` *)
clamp_len(len) == IF len > TopN THEN TopN ELSE len

(* Mutant: the shift starts one slot too low. *)
shift_start_len_minus_one(len) == len - 1

(* `let mut k = if len < 10 { len } else { 9 }` *)
shift_start(len) == IF len < TopN THEN len ELSE TopN - 1

(* Mutant: the new entry is appended to a full board too. *)
has_room_always(len) == TRUE

(* `if !inserted { if len < 10 { append } else { return } }` *)
has_room(len) == len < TopN

(* Mutant: the new length is not capped. *)
new_len_uncapped(len) == len + 1

(* `let new_len = if len < 10 { len + 1 } else { 10 }` *)
new_len(len) == IF len < TopN THEN len + 1 ELSE TopN

(* The body shared by upsert_top10 and upsert_top10_alltime, on the entry  *)
(* map lb and the stored length len0 of one board:                         *)
(* [lb, len, written, inserted, pos]; written = the length is stored.      *)
upsert_slots(lb, pfx, len0, entry) ==
    LET len1 == clamp_len(len0)
        i == find_player(lb, pfx, 0, len1, entry.player)
        found == i < len1
        lb1 == IF found THEN shift_left(lb, pfx, i, len1) ELSE lb
        len == IF found THEN len1 - 1 ELSE len1
        p == find_insert_pos(lb1, pfx, 0, len, entry)
    IN  IF p < len
        THEN [ lb |-> MapWrite(shift_right(lb1, pfx, shift_start(len), p),
                               Append(pfx, p), entry, ZeroEntry),
               len |-> new_len(len), inserted |-> TRUE, pos |-> p ]
        ELSE IF has_room(len)
        THEN [ lb |-> MapWrite(lb1, Append(pfx, len), entry, ZeroEntry),
               len |-> new_len(len), inserted |-> TRUE, pos |-> len ]
        ELSE [ lb |-> lb1, len |-> len0, inserted |-> FALSE, pos |-> p ]

(* Mutant: LeaderboardUpdated is emitted whether or not the entry went in. *)
upsert_top10_always_notifies(st, ep, day, entry) ==
    LET r == upsert_slots(st.leaderboard, <<ep, day>>,
                          MapRead(st.leaderboard_len, <<ep, day>>, 0), entry)
    IN  [ st |-> [st EXCEPT
              !.leaderboard = r.lb,
              !.leaderboard_len =
                  IF r.inserted THEN MapWrite(st.leaderboard_len, <<ep, day>>, r.len, 0)
                  ELSE st.leaderboard_len],
          events |-> <<LeaderboardUpdated(day, r.pos, entry.player, entry.points)>> ]

(* Mutant: the daily boards of an epoch are kept in one board, day 0's. *)
upsert_top10_one_board(st, ep, day, entry) ==
    LET r == upsert_slots(st.leaderboard, <<ep, 0>>,
                          MapRead(st.leaderboard_len, <<ep, 0>>, 0), entry)
    IN  IF ~r.inserted
        THEN [st |-> [st EXCEPT !.leaderboard = r.lb], events |-> <<>>]
        ELSE [ st |-> [st EXCEPT
                   !.leaderboard = r.lb,
                   !.leaderboard_len = MapWrite(st.leaderboard_len, <<ep, 0>>, r.len, 0)],
               events |-> <<LeaderboardUpdated(day, r.pos, entry.player, entry.points)>> ]

upsert_top10(st, ep, day, entry) ==
    LET r == upsert_slots(st.leaderboard, <<ep, day>>,
                          MapRead(st.leaderboard_len, <<ep, day>>, 0), entry)
    IN  IF ~r.inserted
        THEN [st |-> [st EXCEPT !.leaderboard = r.lb], events |-> <<>>]
        ELSE [ st |-> [st EXCEPT
                   !.leaderboard = r.lb,
                   !.leaderboard_len = MapWrite(st.leaderboard_len, <<ep, day>>, r.len, 0)],
               events |-> <<LeaderboardUpdated(day, r.pos, entry.player, entry.points)>> ]

upsert_top10_alltime(st, ep, entry) ==
    LET r == upsert_slots(st.leaderboard_alltime, <<ep>>,
                          MapRead(st.leaderboard_alltime_len, <<ep>>, 0), entry)
    IN  IF ~r.inserted
        THEN [st EXCEPT !.leaderboard_alltime = r.lb]
        ELSE [st EXCEPT
                 !.leaderboard_alltime = r.lb,
                 !.leaderboard_alltime_len =
                     MapWrite(st.leaderboard_alltime_len, <<ep>>, r.len, 0)]

----------------------------------------------------------------------------
(* Main submit (B: delta only) *)

(* Mutant: the pause flag is not checked. *)
not_paused_unchecked(st) == TRUE

(* `assert(paused == false, 'PAUSED')` *)
not_paused(st) == st.paused = FALSE

(* Mutant: every score is taken as an improvement. *)
no_update_never(new_points, old_best) == FALSE

(* Mutant: an equal score counts as an improvement. *)
no_update_below(new_points, old_best) == new_points < old_best

(* `if new_points <= old_best { ... return; }` *)
no_update(new_points, old_best) == new_points <= old_best

(* Mutant: every improvement of a day is stored as the all-time best. *)
raises_all_time_always(new_points, old_all) == TRUE

(* `if new_points > old_all { self.best_all_time.write(...) }` *)
raises_all_time(new_points, old_all) == new_points > old_all

(* Mutant: the delta is the whole score. *)
delta_of_points(new_points, old_best) == new_points

(* `let delta = new_points - old_best;` *)
delta_of(new_points, old_best) == new_points - old_best

(* Mutant: the total is overwritten with the delta. *)
total_after_overwrite(total_prev, delta) == delta

(* `let total_now = total_prev + delta;` *)
total_after(total_prev, delta) == total_prev + delta

(* The call of calc_points that submit_result makes, if it gets that far. *)
NoCall == [time_sec |-> 0, moves |-> 0, streak |-> 0, res |-> calc_panic("")]

calc_call(st, player, day, time_sec, moves) ==
    LET us == update_streak(st, player, day)
    IN  IF ~not_paused(st) \/ us.panic # "" THEN NoCall
        ELSE [ time_sec |-> time_sec, moves |-> moves, streak |-> us.ret,
               res |-> calc_points(time_sec, moves, us.ret) ]

submit_result(st, player, day, time_sec, moves) ==
    IF ~not_paused(st) THEN Panic(st, "PAUSED")
    ELSE
    LET ep == st.epoch
        us == update_streak(st, player, day)
        cp == calc_points(time_sec, moves, us.ret)
        s1 == us.st
        new_points == cp.value
        old_best == MapRead(s1.best_points, <<ep, player, day>>, 0)
        total_prev == MapRead(s1.points_total, <<ep, player>>, 0)
        delta == delta_of(new_points, old_best)
        old_all == MapRead(s1.best_all_time, <<ep, player>>, 0)
        total_now == total_after(total_prev, delta)
        day_prev == MapRead(s1.points_by_day, <<ep, player, day>>, 0)
        s2 == [s1 EXCEPT
                  !.best_points = MapWrite(s1.best_points, <<ep, player, day>>, new_points, 0),
                  !.best_all_time =
                      IF raises_all_time(new_points, old_all)
                      THEN MapWrite(s1.best_all_time, <<ep, player>>, new_points, 0)
                      ELSE s1.best_all_time,
                  !.points_total = MapWrite(s1.points_total, <<ep, player>>, total_now, 0),
                  !.points_by_day =
                      MapWrite(s1.points_by_day, <<ep, player, day>>, day_prev + delta, 0)]
        entry == Entry(player, new_points, time_sec, moves)
        u1 == upsert_top10(s2, ep, day, entry)
        s3 == upsert_top10_alltime(u1.st, ep, entry)
    IN  IF us.panic # "" THEN Panic(st, us.panic)
        ELSE IF cp.panic # "" THEN Panic(s1, cp.panic)
        ELSE IF no_update(new_points, old_best)
        THEN Ok(s1, <<ResultSubmitted(player, day, new_points, 0, total_prev, time_sec, moves)>>)
        ELSE Ok(s3, u1.events \o
                    <<ResultSubmitted(player, day, new_points, delta, total_now, time_sec, moves)>>)

----------------------------------------------------------------------------
(* The client page (src/src/game.ts, src/src/App.tsx): values of its state *)

Null == "null"

Card(id, suit, rank, faceUp) ==
    [id |-> id, suit |-> suit, rank |-> rank, faceUp |-> faceUp]

(* Pile and card indices count from 0, as in the code. *)
PileRef(type, index, cardIndex) ==
    [type |-> type, index |-> index, cardIndex |-> cardIndex]

(* `selected` is null. *)
NoSelection == [type |-> "none", index |-> 0, cardIndex |-> 0]

GameState(stock, waste, foundations, tableau) ==
    [stock |-> stock, waste |-> waste, foundations |-> foundations, tableau |-> tableau]

NoUi ==
    [op |-> "", from |-> NoSelection, to |-> NoSelection, tried |-> FALSE, moved |-> FALSE]

(* No page of the client is open. *)
NoClient ==
    /\ game = GameState(<<>>, <<>>, <<>>, <<>>)
    /\ history_moves = 0
    /\ selected = NoSelection
    /\ startTime = 0
    /\ clock = 0
    /\ submitStatus = "idle"
    /\ submitTx = Null
    /\ submitError = Null
    /\ calls = <<>>
    /\ ui = NoUi

----------------------------------------------------------------------------
(* Transactions.  The host runs one call at a time; a call that panics is  *)
(* reverted as a whole.                                                    *)

Commit(st) ==
    /\ owner' = st.owner
    /\ version' = st.version
    /\ paused' = st.paused
    /\ epoch' = st.epoch
    /\ class_hash' = st.class_hash
    /\ daily_seed' = st.daily_seed
    /\ best_points' = st.best_points
    /\ best_all_time' = st.best_all_time
    /\ points_total' = st.points_total
    /\ points_by_day' = st.points_by_day
    /\ streak' = st.streak
    /\ last_day_played' = st.last_day_played
    /\ leaderboard' = st.leaderboard
    /\ leaderboard_len' = st.leaderboard_len
    /\ leaderboard_alltime' = st.leaderboard_alltime
    /\ leaderboard_alltime_len' = st.leaderboard_alltime_len

Transact(op, caller, args, r) ==
    /\ Commit(IF r.panic = "" THEN r.st ELSE Storage)
    /\ events' = (IF r.panic = "" THEN r.events ELSE <<>>)
    /\ last' = [op |-> op, caller |-> caller, args |-> args, panic |-> r.panic]

InitFrom(st) ==
    /\ owner = st.owner
    /\ version = st.version
    /\ paused = st.paused
    /\ epoch = st.epoch
    /\ class_hash = st.class_hash
    /\ daily_seed = st.daily_seed
    /\ best_points = st.best_points
    /\ best_all_time = st.best_all_time
    /\ points_total = st.points_total
    /\ points_by_day = st.points_by_day
    /\ streak = st.streak
    /\ last_day_played = st.last_day_played
    /\ leaderboard = st.leaderboard
    /\ leaderboard_len = st.leaderboard_len
    /\ leaderboard_alltime = st.leaderboard_alltime
    /\ leaderboard_alltime_len = st.leaderboard_alltime_len
    /\ events = <<>>
    /\ last = [op |-> "constructor", caller |-> ZeroAddress, args |-> <<st.owner>>, panic |-> ""]

NoHistory ==
    /\ accepted = {}
    /\ run = EmptyMap
    /\ best_entry = EmptyMap
    /\ delta_sum = EmptyMap
    /\ day_runs = EmptyMap
    /\ compared = NoCompare
    /\ scored = NoCall

Init ==
    /\ \E o \in Deployers : InitFrom(constructor(o))
    /\ NoHistory
    /\ budget = MaxSubmits
    /\ NoClient

SetOwner(c, new_owner) ==
    /\ Transact("set_owner", c, <<new_owner>>, set_owner(Storage, c, new_owner))
    /\ scored' = NoCall
    /\ UNCHANGED << accepted, run, best_entry, delta_sum, day_runs, compared, budget, clientVars >>

SetPaused(c, p) ==
    /\ Transact("set_paused", c, <<p>>, set_paused(Storage, c, p))
    /\ scored' = NoCall
    /\ UNCHANGED << accepted, run, best_entry, delta_sum, day_runs, compared, budget, clientVars >>

Upgrade(c, h, syscall_ok) ==
    /\ Transact("upgrade", c, <<h>>, upgrade(Storage, c, h, syscall_ok))
    /\ scored' = NoCall
    /\ UNCHANGED << accepted, run, best_entry, delta_sum, day_runs, compared, budget, clientVars >>

ResetScores(c) ==
    /\ epoch < MaxEpoch
    /\ Transact("reset_scores", c, <<>>, reset_scores(Storage, c))
    /\ scored' = NoCall
    /\ UNCHANGED << accepted, run, best_entry, delta_sum, day_runs, compared, budget, clientVars >>

SetDailySeed(c, day, seed) ==
    /\ Transact("set_daily_seed", c, <<day, seed>>, set_daily_seed(Storage, c, day, seed))
    /\ scored' = NoCall
    /\ UNCHANGED << accepted, run, best_entry, delta_sum, day_runs, compared, budget, clientVars >>

(* The last element of a sequence as a sequence of one, or <<>>.           *)
LastOf(seq) == IF seq = <<>> THEN <<>> ELSE <<seq[Len(seq)]>>

(* The ResultSubmitted event of a transaction's events, and whether it     *)
(* reports an improvement.                                                 *)
SubmittedEvent(evs) == evs[Len(evs)]
Improved(evs) == evs # <<>> /\ SubmittedEvent(evs).delta > 0

(* The player's previous accepted submission of this epoch was for `day`. *)
SameDay(c, day) ==
    /\ MapRead(run, <<epoch, c>>, {}) # {}
    /\ MapRead(last_day_played, <<epoch, c>>, 0) = day

SubmitResultTx(c, day, time_sec, moves) ==
    LET r == submit_result(Storage, c, day, time_sec, moves)
    IN  /\ r.panic # "" \/ budget > 0
        /\ Transact("submit_result", c, <<day, time_sec, moves>>, r)
        /\ budget' = (IF r.panic = "" THEN budget - 1 ELSE budget)
        /\ accepted' = (IF r.panic = ""
                        THEN accepted \cup {<<epoch, c, day, time_sec, moves>>}
                        ELSE accepted)
        /\ best_entry' = (IF r.panic = "" /\ Improved(r.events)
                          THEN MapWrite(best_entry, <<epoch, c, day>>,
                                        Entry(c, SubmittedEvent(r.events).new_points,
                                              time_sec, moves), ZeroEntry)
                          ELSE best_entry)
        /\ day_runs' = (IF r.panic # "" \/ LastOf(MapRead(day_runs, <<epoch, c>>, <<>>)) = <<day>>
                        THEN day_runs
                        ELSE MapWrite(day_runs, <<epoch, c>>,
                                      Append(MapRead(day_runs, <<epoch, c>>, <<>>), day), <<>>))
        /\ UNCHANGED compared
        /\ delta_sum' = (IF r.panic # "" THEN delta_sum
                         ELSE MapWrite(delta_sum, <<epoch, c>>,
                                       MapRead(delta_sum, <<epoch, c>>, 0)
                                           + SubmittedEvent(r.events).delta, 0))
        /\ scored' = calc_call(Storage, c, day, time_sec, moves)
        /\ run' = (IF r.panic # "" THEN run
                   ELSE MapWrite(run, <<epoch, c>>,
                                 (IF SameDay(c, day) THEN MapRead(run, <<epoch, c>>, {}) ELSE {})
                                     \cup {<<time_sec, moves>>}, {}))

SubmitResult(c, day, time_sec, moves) ==
    /\ SubmitResultTx(c, day, time_sec, moves)
    /\ UNCHANGED clientVars

Next ==
    \/ \E c \in Callers, n \in Callers : SetOwner(c, n)
    \/ \E c \in Callers, p \in BOOLEAN : SetPaused(c, p)
    \/ \E c \in Callers, h \in ClassHashes, ok \in BOOLEAN : Upgrade(c, h, ok)
    \/ \E c \in Callers : ResetScores(c)
    \/ \E c \in Callers, d \in SeedDays, s \in Seeds : SetDailySeed(c, d, s)
    \/ \E c \in Callers, d \in AdminDays, r \in Results : SubmitResult(c, d, r[1], r[2])

Spec == Init /\ [][Next]_vars

(* Play: the submissions of one season.                                    *)

InitPlay ==
    /\ \E o \in Deployers : InitFrom(constructor(o))
    /\ NoHistory
    /\ budget = MaxPlaySubmits
    /\ NoClient

NextPlay ==
    \E c \in Callers, d \in Days, r \in ValidResults : SubmitResult(c, d, r[1], r[2])

SpecPlay == InitPlay /\ [][NextPlay]_vars

(* Full: the callers compete for a day's board that ten other players have *)
(* filled, or filled but for one slot.                                     *)

RECURSIVE Prefilled(_)
(* Storage after the constructor and the first n submissions of PrefillRuns. *)
Prefilled(n) ==
    IF n = 0 THEN constructor(CHOOSE o \in Deployers : TRUE)
    ELSE submit_result(Prefilled(n - 1), PrefillRuns[n][1], FullDay,
                       PrefillRuns[n][2], PrefillRuns[n][3]).st

InitFull ==
    \E n \in PrefillLens :
        LET st == Prefilled(n)
            runOf(p) == CHOOSE i \in 1..n : PrefillRuns[i][1] = p
        IN  /\ InitFrom(st)
            /\ accepted = { <<0, PrefillRuns[i][1], FullDay, PrefillRuns[i][2], PrefillRuns[i][3]>> :
                               i \in 1..n }
            /\ run = [ k \in { <<0, PrefillRuns[i][1]>> : i \in 1..n } |->
                         { <<PrefillRuns[runOf(k[2])][2], PrefillRuns[runOf(k[2])][3]>> } ]
            /\ best_entry = [ k \in { <<0, PrefillRuns[i][1], FullDay>> : i \in 1..n } |->
                                Entry(k[2], MapRead(st.best_points, k, 0),
                                      PrefillRuns[runOf(k[2])][2], PrefillRuns[runOf(k[2])][3]) ]
            /\ delta_sum = st.points_total
            /\ day_runs = [ k \in { <<0, PrefillRuns[i][1]>> : i \in 1..n } |-> <<FullDay>> ]
            /\ compared = NoCompare
            /\ scored = NoCall
            /\ budget = MaxFullSubmits
            /\ NoClient

NextFull ==
    \E c \in FullCallers, d \in FullDays, r \in FullResults : SubmitResult(c, d, r[1], r[2])

SpecFull == InitFull /\ [][NextFull]_vars

(* Epochs: submissions before and after the owner's resets, with pauses.   *)

InitEpochs ==
    /\ \E o \in Deployers : InitFrom(constructor(o))
    /\ NoHistory
    /\ budget = MaxEpochSubmits
    /\ NoClient

NextEpochs ==
    \/ \E c \in Callers : ResetScores(c)
    \/ \E c \in Callers, p \in BOOLEAN : SetPaused(c, p)
    \/ \E c \in Callers, d \in AdminDays, r \in ValidResults : SubmitResult(c, d, r[1], r[2])

SpecEpochs == InitEpochs /\ [][NextEpochs]_vars

(* Score: calc_points applied to arguments of its three types.             *)

InitScore ==
    /\ \E o \in Deployers : InitFrom(constructor(o))
    /\ NoHistory
    /\ budget = 0
    /\ NoClient

CalcPoints(time_sec, moves, streak_) ==
    /\ scored' = [ time_sec |-> time_sec, moves |-> moves, streak |-> streak_,
                   res |-> calc_points(time_sec, moves, streak_) ]
    /\ UNCHANGED << storageVars, events, last, accepted, run, best_entry, delta_sum,
                    day_runs, compared, budget, clientVars >>

NextScore ==
    \E t \in ScoreTimes, m \in ScoreMoves, s \in ScoreStreaks : CalcPoints(t, m, s)

SpecScore == InitScore /\ [][NextScore]_vars

(* Compare: better_than applied to entries of three players.               *)

CompareEntries(player) ==
    { [player |-> player, points |-> pt, time_sec |-> t, moves |-> m] :
          pt \in ComparePoints, t \in CompareTimes, m \in CompareMoves }

InitCompare ==
    /\ \E o \in Deployers : InitFrom(constructor(o))
    /\ NoHistory
    /\ budget = 0
    /\ NoClient

BetterThan(a, b, c) ==
    /\ compared' = compare_call(a, b, c)
    /\ UNCHANGED << storageVars, events, last, accepted, run, best_entry, delta_sum,
                    day_runs, scored, budget, clientVars >>

NextCompare ==
    \E a \in CompareEntries(1), b \in CompareEntries(2), c \in CompareEntries(3) :
        BetterThan(a, b, c)

SpecCompare == InitCompare /\ [][NextCompare]_vars

(* Frame: submissions between the owner's changes of owner, pause flag,    *)
(* epoch and daily seeds.                                                  *)

InitFrame ==
    /\ \E o \in Deployers : InitFrom(constructor(o))
    /\ NoHistory
    /\ budget = MaxFrameSubmits
    /\ NoClient

NextFrame ==
    \/ \E c \in Callers, n \in Callers : SetOwner(c, n)
    \/ \E c \in Callers, p \in BOOLEAN : SetPaused(c, p)
    \/ \E c \in Callers : ResetScores(c)
    \/ \E c \in Callers, d \in SeedDays, s \in Seeds : SetDailySeed(c, d, s)
    \/ \E c \in Callers, d \in Days, r \in ValidResults : SubmitResult(c, d, r[1], r[2])

SpecFrame == InitFrame /\ [][NextFrame]_vars

(* Streak: a player whose streak is at the end of the u16 range.           *)

(* The day of the n-th submission of the alternating player. *)
VeteranDay(n) == VeteranDays[IF n % 2 = 1 THEN 1 ELSE 2]

RECURSIVE Alternated(_)
(* The storage after the constructor and the first n submissions of the    *)
(* alternating player, who is the first of the callers (a set of one       *)
(* storage).                                                               *)
Alternated(n) ==
    IF n = 0 THEN { constructor(CHOOSE o \in Deployers : TRUE) }
    ELSE { submit_result(before, CHOOSE c \in Callers : \A x \in Callers : c <= x,
                         VeteranDay(n), VeteranResult[1], VeteranResult[2]).st :
               before \in Alternated(n - 1) }

(* Storage after n >= VeteranWarmup such submissions.  From the eleventh   *)
(* on, calc_points gets a streak above its cap of 10, so the submissions   *)
(* after the warm-up take the no-update branch of submit_result and write  *)
(* nothing but the streak and the last day played in update_streak.        *)
Veteran(n) ==
    LET c == CHOOSE c \in Callers : \A x \in Callers : c <= x
    IN  CHOOSE v \in
            { [st EXCEPT
                  !.streak = MapWrite(st.streak, <<st.epoch, c>>, n, 0),
                  !.last_day_played = MapWrite(st.last_day_played, <<st.epoch, c>>,
                                               VeteranDay(n), 0)] :
                  st \in Alternated(VeteranWarmup) } : TRUE

InitStreak ==
    \E n \in VeteranSubmits, c \in Callers : \E st \in {Veteran(n)} :
        /\ \A x \in Callers : c <= x
        /\ InitFrom(st)
        /\ accepted = { <<0, c, VeteranDays[i], VeteranResult[1], VeteranResult[2]>> :
                           i \in 1..2 }
        /\ run = [ k \in {<<0, c>>} |-> {VeteranResult} ]
        /\ best_entry = [ k \in { <<0, c, VeteranDays[i]>> : i \in 1..2 } |->
                            Entry(c, MapRead(st.best_points, k, 0),
                                  VeteranResult[1], VeteranResult[2]) ]
        /\ delta_sum = st.points_total
        /\ day_runs = [ k \in {<<0, c>>} |->
                         [i \in 1..VeteranWarmup |-> VeteranDay(n - VeteranWarmup + i)] ]
        /\ compared = NoCompare
        /\ scored = NoCall
        /\ budget = MaxStreakSubmits
        /\ NoClient

NextStreak ==
    \E c \in Callers, d \in Days, r \in ValidResults : SubmitResult(c, d, r[1], r[2])

SpecStreak == InitStreak /\ [][NextStreak]_vars

----------------------------------------------------------------------------
(* The card game (src/src/game.ts)                                         *)

(* The deck of the model: the first NumSuits of the suits, the ranks       *)
(* 1..MaxRank and the king; NumColumns tableau columns and NumFoundations  *)
(* foundations.  The code has 4 suits, 13 ranks, 7 columns, 4 foundations. *)
SUITS == SubSeq(<<"S", "H", "D", "C">>, 1, NumSuits)
RANKS == [i \in 1..(MaxRank + 1) |-> IF i <= MaxRank THEN i ELSE KingRank]

isRedSuit(suit) == suit = "H" \/ suit = "D"

(* `Math.floor(rng() * (i + 1))` of shuffle: an index in 0..i fixed by the *)
(* seed and the place of the draw.  The bits of mulberry32 are not         *)
(* modelled; the seeds of the model give different deals.                  *)
rngIndex(seed, i) == ((seed \div (i + 1)) + seed * i) % (i + 1)

RECURSIVE shuffleFrom(_, _, _)
(* The loop of shuffle, from index i down to 1 (indices from 0). *)
shuffleFrom(deck, seed, i) ==
    IF i < 1 THEN deck
    ELSE LET j == rngIndex(seed, i)
         IN  shuffleFrom([deck EXCEPT ![i + 1] = deck[j + 1], ![j + 1] = deck[i + 1]],
                         seed, i - 1)

shuffle(cards, seed) == shuffleFrom(cards, seed, Len(cards) - 1)

createNewGame(seed) ==
    LET cards == [k \in 1..(Len(SUITS) * Len(RANKS)) |->
                     LET suit == SUITS[((k - 1) \div Len(RANKS)) + 1]
                         rank == RANKS[((k - 1) % Len(RANKS)) + 1]
                     IN  Card(<<rank, suit, seed, k>>, suit, rank, FALSE)]
        deck == shuffle(cards, seed)
        first(column) == (column * (column + 1)) \div 2
        tableau == [c \in 1..NumColumns |->
                       [row \in 1..c |->
                           [deck[first(c - 1) + row] EXCEPT !.faceUp = (row = c)]]]
        deckIndex == first(NumColumns)
        stock == [i \in 1..(Len(deck) - deckIndex) |->
                     [deck[deckIndex + i] EXCEPT !.faceUp = FALSE]]
    IN  GameState(stock, <<>>, [f \in 1..NumFoundations |-> <<>>], tableau)

(* Mutant: the card dealt to the waste stays on the stock. *)
dealFromStock_keeps(state) ==
    IF Len(state.stock) = 0 THEN state
    ELSE [state EXCEPT
             !.waste = Append(state.waste,
                              [state.stock[Len(state.stock)] EXCEPT !.faceUp = TRUE])]

dealFromStock(state) ==
    IF Len(state.stock) = 0 THEN state
    ELSE LET nextCard == state.stock[Len(state.stock)]
         IN  [state EXCEPT
                 !.stock = SubSeq(state.stock, 1, Len(state.stock) - 1),
                 !.waste = Append(state.waste, [nextCard EXCEPT !.faceUp = TRUE])]

recycleWaste(state) ==
    IF Len(state.waste) = 0 THEN state
    ELSE [state EXCEPT
             !.stock = [i \in 1..Len(state.waste) |->
                           [state.waste[Len(state.waste) + 1 - i] EXCEPT !.faceUp = FALSE]],
             !.waste = <<>>]

getPile(state, ref) ==
    IF ref.type = "waste" THEN state.waste
    ELSE IF ref.type = "foundation" THEN state.foundations[ref.index + 1]
    ELSE state.tableau[ref.index + 1]

updatePile(state, ref, nextPile) ==
    IF ref.type = "waste" THEN [state EXCEPT !.waste = nextPile]
    ELSE IF ref.type = "foundation"
    THEN [state EXCEPT !.foundations[ref.index + 1] = nextPile]
    ELSE [state EXCEPT !.tableau[ref.index + 1] = nextPile]

revealTop(column) ==
    IF Len(column) = 0 THEN column
    ELSE IF column[Len(column)].faceUp THEN column
    ELSE [column EXCEPT ![Len(column)].faceUp = TRUE]

moveStack(state, from, to) ==
    LET fromPile == getPile(state, from)
        toPile == getPile(state, to)
        moving == SubSeq(fromPile, from.cardIndex + 1, Len(fromPile))
        remaining == SubSeq(fromPile, 1, from.cardIndex)
        s1 == updatePile(state, from, remaining)
        s2 == updatePile(s1, to, toPile \o moving)
    IN  IF from.type = "tableau"
        THEN [s2 EXCEPT !.tableau[from.index + 1] = revealTop(@)]
        ELSE s2

(* The result of canMoveToFoundation and canMoveToTableau: null, or        *)
(* { next }.                                                               *)
NoMove(state) == [ok |-> FALSE, next |-> state]
MoveTo(next) == [ok |-> TRUE, next |-> next]

canMoveToFoundation(state, sel, foundationIndex) ==
    LET fromPile == getPile(state, sel)
        card == fromPile[sel.cardIndex + 1]
        foundation == state.foundations[foundationIndex + 1]
        top == foundation[Len(foundation)]
    IN  IF Len(fromPile) = 0 THEN NoMove(state)
        ELSE IF sel.cardIndex + 1 \notin DOMAIN fromPile THEN NoMove(state)
        ELSE IF sel.type = "tableau" /\ sel.cardIndex # Len(fromPile) - 1 THEN NoMove(state)
        ELSE IF sel.type = "tableau" /\ ~card.faceUp THEN NoMove(state)
        ELSE IF Len(foundation) = 0 /\ card.rank # 1 THEN NoMove(state)
        ELSE IF Len(foundation) > 0 /\ (top.suit # card.suit \/ card.rank # top.rank + 1)
        THEN NoMove(state)
        ELSE MoveTo(moveStack(state, sel,
                              PileRef("foundation", foundationIndex, Len(foundation))))

(* Mutant: a card goes on any card of the other colour, whatever its rank. *)
canMoveToTableau_any_rank(state, sel, targetColumn) ==
    LET fromPile == getPile(state, sel)
        card == fromPile[sel.cardIndex + 1]
        targetPile == state.tableau[targetColumn + 1]
        targetTop == targetPile[Len(targetPile)]
    IN  IF Len(fromPile) = 0 THEN NoMove(state)
        ELSE IF sel.cardIndex + 1 \notin DOMAIN fromPile THEN NoMove(state)
        ELSE IF ~card.faceUp THEN NoMove(state)
        ELSE IF Len(targetPile) = 0 /\ card.rank # KingRank THEN NoMove(state)
        ELSE IF Len(targetPile) > 0 /\ isRedSuit(targetTop.suit) = isRedSuit(card.suit)
        THEN NoMove(state)
        ELSE MoveTo(moveStack(state, sel,
                              PileRef("tableau", targetColumn, Len(targetPile))))

canMoveToTableau(state, sel, targetColumn) ==
    LET fromPile == getPile(state, sel)
        card == fromPile[sel.cardIndex + 1]
        targetPile == state.tableau[targetColumn + 1]
        targetTop == targetPile[Len(targetPile)]
    IN  IF Len(fromPile) = 0 THEN NoMove(state)
        ELSE IF sel.cardIndex + 1 \notin DOMAIN fromPile THEN NoMove(state)
        ELSE IF ~card.faceUp THEN NoMove(state)
        ELSE IF Len(targetPile) = 0 /\ card.rank # KingRank THEN NoMove(state)
        ELSE IF Len(targetPile) > 0 /\ isRedSuit(targetTop.suit) = isRedSuit(card.suit)
        THEN NoMove(state)
        ELSE IF Len(targetPile) > 0 /\ card.rank # targetTop.rank - 1 THEN NoMove(state)
        ELSE MoveTo(moveStack(state, sel,
                              PileRef("tableau", targetColumn, Len(targetPile))))

----------------------------------------------------------------------------
(* The page (src/src/App.tsx): one action per handler.  A handler reads    *)
(* the state of the latest render.  history.past and history.future are    *)
(* written but never read back (there is no undo) and are left out.        *)

contractVars ==
    << storageVars, events, last, accepted, run, best_entry, delta_sum, day_runs,
       compared, scored, budget >>
submitVars == << startTime, clock, submitStatus, submitTx, submitError, calls >>

(* `game.foundations.every((pile) => pile.length === 13)` *)
win(state) == \A f \in DOMAIN state.foundations : Len(state.foundations[f]) = FullPile

(* What a handler did: the PileRef it moved from, the pile it aimed at,    *)
(* whether it asked canMoveToFoundation / canMoveToTableau, and whether    *)
(* it committed a move.                                                    *)
Ui(op, from, to, tried, moved) ==
    [op |-> op, from |-> from, to |-> to, tried |-> tried, moved |-> moved]

(* commitGame(next), while the model's cap on moves allows it *)
commitGame(next) ==
    /\ history_moves < MaxGameMoves
    /\ game' = next
    /\ history_moves' = history_moves + 1

OnStockClick ==
    LET empty == Len(game.stock) = 0
        next == IF empty THEN recycleWaste(game) ELSE dealFromStock(game)
        \* `next !== game`: both functions return their argument itself
        \* when there is nothing to do, and a new object otherwise
        changed == IF empty THEN Len(game.waste) # 0 ELSE TRUE
    IN  /\ selected' = NoSelection
        /\ IF changed THEN commitGame(next) ELSE UNCHANGED << game, history_moves >>
        /\ ui' = Ui("onStockClick", NoSelection, NoSelection, FALSE, changed)
        /\ UNCHANGED << contractVars, submitVars >>

OnWasteClick ==
    /\ selected' = (IF Len(game.waste) = 0 THEN selected
                    ELSE IF selected.type = "waste" THEN NoSelection
                    ELSE PileRef("waste", 0, Len(game.waste) - 1))
    /\ ui' = Ui("onWasteClick", NoSelection, NoSelection, FALSE, FALSE)
    /\ UNCHANGED << game, history_moves, contractVars, submitVars >>

isValidRun(columnIndex, startIndex) ==
    LET column == game.tableau[columnIndex + 1]
        cards == SubSeq(column, startIndex + 1, Len(column))
    IN  /\ Len(cards) # 0
        /\ \A i \in 1..Len(cards) : cards[i].faceUp
        /\ \A i \in 1..(Len(cards) - 1) :
               /\ cards[i].rank = cards[i + 1].rank + 1
               /\ isRedSuit(cards[i].suit) # isRedSuit(cards[i + 1].suit)

(* A click on the card at cardIndex of a column; the page shows a button   *)
(* for each card of the column.                                            *)
OnTableauClick(columnIndex, cardIndex) ==
    LET column == game.tableau[columnIndex + 1]
        card == column[cardIndex + 1]
        here == PileRef("tableau", columnIndex, cardIndex)
        other == selected # NoSelection /\ selected # here
        result == canMoveToTableau(game, selected, columnIndex)
    IN  /\ cardIndex + 1 \in DOMAIN column
        /\ IF ~card.faceUp
           THEN /\ UNCHANGED << game, history_moves, selected >>
                /\ ui' = Ui("onTableauClick", selected, here, FALSE, FALSE)
           ELSE IF other /\ result.ok
           THEN /\ commitGame(result.next)
                /\ selected' = NoSelection
                /\ ui' = Ui("onTableauClick", selected, here, TRUE, TRUE)
           ELSE /\ UNCHANGED << game, history_moves >>
                /\ selected' = (IF selected = here THEN NoSelection ELSE here)
                /\ ui' = Ui("onTableauClick", selected, here, other, FALSE)
        /\ UNCHANGED << contractVars, submitVars >>

OnFoundationClick(foundationIndex) ==
    LET pile == game.foundations[foundationIndex + 1]
    IN  /\ selected' = (IF Len(pile) = 0 THEN selected
                        ELSE IF selected.type = "foundation" /\ selected.index = foundationIndex
                        THEN NoSelection
                        ELSE PileRef("foundation", foundationIndex, Len(pile) - 1))
        /\ ui' = Ui("onFoundationClick", NoSelection, NoSelection, FALSE, FALSE)
        /\ UNCHANGED << game, history_moves, contractVars, submitVars >>

(* A click on a foundation while a pile is selected. *)
TryMoveToFoundation(foundationIndex) ==
    LET to == PileRef("foundation", foundationIndex, 0)
        result == canMoveToFoundation(game, selected, foundationIndex)
    IN  /\ selected # NoSelection
        /\ IF selected.type = "foundation"
           THEN /\ UNCHANGED << game, history_moves, selected >>
                /\ ui' = Ui("tryMoveToFoundation", selected, to, FALSE, FALSE)
           ELSE IF ~result.ok
           THEN /\ UNCHANGED << game, history_moves, selected >>
                /\ ui' = Ui("tryMoveToFoundation", selected, to, TRUE, FALSE)
           ELSE /\ commitGame(result.next)
                /\ selected' = NoSelection
                /\ ui' = Ui("tryMoveToFoundation", selected, to, TRUE, TRUE)
        /\ UNCHANGED << contractVars, submitVars >>

(* A click on a column, off its cards, while a pile is selected. *)
TryMoveToTableau(targetColumn) ==
    LET to == PileRef("tableau", targetColumn, 0)
        result == canMoveToTableau(game, selected, targetColumn)
    IN  /\ selected # NoSelection
        /\ IF ~result.ok
           THEN /\ UNCHANGED << game, history_moves, selected >>
                /\ ui' = Ui("tryMoveToTableau", selected, to, TRUE, FALSE)
           ELSE /\ commitGame(result.next)
                /\ selected' = NoSelection
                /\ ui' = Ui("tryMoveToTableau", selected, to, TRUE, TRUE)
        /\ UNCHANGED << contractVars, submitVars >>

(* The PileRef that getDropTarget and finalizeDrop build from a payload. *)
selectedRef(sourceType, sourceIndex, startIndex) ==
    IF sourceType = "waste" THEN PileRef("waste", 0, Len(game.waste) - 1)
    ELSE IF sourceType = "foundation"
    THEN PileRef("foundation", sourceIndex, Len(game.foundations[sourceIndex + 1]) - 1)
    ELSE PileRef("tableau", sourceIndex, startIndex)

(* A drag can start on the top card of the waste or of a foundation and    *)
(* on a face-up card of a column that heads a valid run (beginDrag).       *)
canDrag(sourceType, sourceIndex, startIndex) ==
    IF sourceType = "waste" THEN Len(game.waste) > 0
    ELSE IF sourceType = "foundation" THEN Len(game.foundations[sourceIndex + 1]) > 0
    ELSE /\ startIndex + 1 \in DOMAIN game.tableau[sourceIndex + 1]
         /\ game.tableau[sourceIndex + 1][startIndex + 1].faceUp
         /\ isValidRun(sourceIndex, startIndex)

(* payload.cardIds.length *)
cardIdsLength(sourceType, sourceIndex, startIndex) ==
    IF sourceType = "tableau" THEN Len(game.tableau[sourceIndex + 1]) - startIndex ELSE 1

(* hover.valid of getDropTarget for a pointer over the target pile *)
hoverValid(sourceType, sourceIndex, startIndex, targetType, targetIndex) ==
    LET ref == selectedRef(sourceType, sourceIndex, startIndex)
    IN  IF targetType = "foundation"
        THEN /\ ~(cardIdsLength(sourceType, sourceIndex, startIndex) # 1
                  \/ sourceType = "foundation")
             /\ canMoveToFoundation(game, ref, targetIndex).ok
        ELSE /\ ~(sourceType = "tableau" /\ sourceIndex = targetIndex)
             /\ canMoveToTableau(game, ref, targetIndex).ok

(* A drag from a pile that ends over a pile: onPointerUp, finalizeDrop. *)
FinalizeDrop(sourceType, sourceIndex, startIndex, targetType, targetIndex) ==
    LET ref == selectedRef(sourceType, sourceIndex, startIndex)
        to == PileRef(targetType, targetIndex, 0)
        valid == hoverValid(sourceType, sourceIndex, startIndex, targetType, targetIndex)
        result == IF targetType = "foundation"
                  THEN canMoveToFoundation(game, ref, targetIndex)
                  ELSE canMoveToTableau(game, ref, targetIndex)
    IN  /\ canDrag(sourceType, sourceIndex, startIndex)
        /\ IF valid /\ result.ok
           THEN /\ commitGame(result.next)
                /\ selected' = NoSelection
                /\ ui' = Ui("finalizeDrop", ref, to, TRUE, TRUE)
           ELSE /\ UNCHANGED << game, history_moves, selected >>
                /\ ui' = Ui("finalizeDrop", ref, to, valid, FALSE)
        /\ UNCHANGED << contractVars, submitVars >>

(* resetGame; nextSeed is getRandomSeed() *)
ResetGame(nextSeed) ==
    /\ selected' = NoSelection
    /\ submitStatus' = "idle"
    /\ submitTx' = Null
    /\ submitError' = Null
    /\ game' = createNewGame(nextSeed)
    /\ history_moves' = 0
    /\ startTime' = clock
    /\ ui' = Ui("resetGame", NoSelection, NoSelection, FALSE, FALSE)
    /\ UNCHANGED << contractVars, clock, calls >>

(* The page after its first render: `useState(() => getDailySeed())`. *)
PageOpened(seed) ==
    /\ game = createNewGame(seed)
    /\ history_moves = 0
    /\ selected = NoSelection
    /\ startTime = 0
    /\ clock = 0
    /\ submitStatus = "idle"
    /\ submitTx = Null
    /\ submitError = Null
    /\ calls = <<>>
    /\ ui = NoUi

(* Game: the handlers of the card table on a small deck.                   *)

InitGame ==
    /\ \E o \in Deployers : InitFrom(constructor(o))
    /\ NoHistory
    /\ budget = 0
    /\ \E seed \in GameSeeds : PageOpened(seed)

Columns == 0..(NumColumns - 1)
Foundations == 0..(NumFoundations - 1)
CardIndices == 0..(NumColumns + MaxRank)
SourceTypes == {"waste", "foundation", "tableau"}
TargetTypes == {"foundation", "tableau"}

NextGame ==
    \/ OnStockClick
    \/ OnWasteClick
    \/ \E c \in Columns, i \in CardIndices : OnTableauClick(c, i)
    \/ \E f \in Foundations : OnFoundationClick(f)
    \/ \E f \in Foundations : TryMoveToFoundation(f)
    \/ \E c \in Columns : TryMoveToTableau(c)
    \/ \E st \in SourceTypes, si \in Columns \cup Foundations, i \in CardIndices,
          tt \in TargetTypes, ti \in Columns \cup Foundations :
           /\ si \in (IF st = "tableau" THEN Columns ELSE IF st = "foundation"
                                                     THEN Foundations ELSE {0})
           /\ ti \in (IF tt = "tableau" THEN Columns ELSE Foundations)
           /\ FinalizeDrop(st, si, i, tt, ti)
    \/ \E seed \in GameSeeds : ResetGame(seed)

SpecGame == InitGame /\ [][NextGame]_vars

(* Client: a page on which the game has been won, its wallet and the       *)
(* contract.                                                               *)

(* `n | 0` leaves the integers below 2^31 as they are; history.present.moves *)
(* stays below that.                                                       *)
clampU16(n) == MathMax(0, MathMin(65535, n))

(* The account of the connected wallet. *)
ClientAccount == CHOOSE c \in Callers : \A x \in Callers : c <= x

(* A game with every card on the foundations, as createNewGame(seed)       *)
(* numbers the cards of the full deck.                                     *)
WonGame(seed) ==
    LET suits == <<"S", "H", "D", "C">>
    IN  GameState(<<>>, <<>>,
                  [f \in 1..4 |->
                      [r \in 1..FullPile |->
                          Card(<<r, suits[f], seed, (f - 1) * FullPile + r>>, suits[f], r, TRUE)]],
                  [c \in 1..7 |-> <<>>])

InitClient ==
    /\ \E o \in Deployers : InitFrom(constructor(o))
    /\ NoHistory
    /\ budget = MaxClientSubmits
    /\ \E seed \in GameSeeds : game = WonGame(seed)
    /\ history_moves \in WonMoves
    /\ selected = NoSelection
    /\ startTime = 0
    /\ clock = CHOOSE t \in ClockValues : \A x \in ClockValues : t <= x
    /\ submitStatus = "idle"
    /\ submitTx = Null
    /\ submitError = Null
    /\ calls = <<>>
    /\ ui = NoUi

(* Time passes: Date.now() reads t from now on. *)
Tick(t) ==
    /\ t > clock
    /\ clock' = t
    /\ UNCHANGED << contractVars, game, history_moves, selected, startTime,
                    submitStatus, submitTx, submitError, calls, ui >>

(* submitResult up to its `await`, on a click of the enabled button        *)
(* (`disabled={!win || !isConnected || submitStatus === 'submitting'}`).   *)
(* account: useAccount() gave an account; abiReady: SOLITAIRE_ABI_READY;   *)
(* day: getDailySeed().                                                    *)
SubmitResultClick(account, abiReady, day) ==
    /\ win(game)
    /\ submitStatus # "submitting"
    /\ IF ~account
       THEN /\ submitStatus' = "error"
            /\ submitError' = "Wallet not connected."
            /\ UNCHANGED << submitTx, calls >>
       ELSE IF ~abiReady
       THEN /\ submitStatus' = "error"
            /\ submitError' = "ABI not loaded."
            /\ UNCHANGED << submitTx, calls >>
       ELSE LET timeSec == MathMax(1, (clock - startTime) \div 1000)
                moves == clampU16(history_moves)
            IN  /\ submitStatus' = "submitting"
                /\ submitError' = Null
                /\ submitTx' = Null
                /\ calls' = Append(calls, [day |-> day, timeSec |-> timeSec, moves |-> moves])
    /\ ui' = Ui("submitResult", NoSelection, NoSelection, FALSE, FALSE)
    /\ UNCHANGED << contractVars, game, history_moves, selected, startTime, clock >>

(* calls without its i-th element *)
Settled(i) == SubSeq(calls, 1, i - 1) \o SubSeq(calls, i + 1, Len(calls))

(* The i-th awaited call reaches the contract, which runs it; submitResult *)
(* goes on after its `await`: with the transaction hash if the call went   *)
(* through, in its `catch` if it reverted.                                 *)
CallExecuted(i, txHash) ==
    /\ i \in DOMAIN calls
    /\ SubmitResultTx(ClientAccount, calls[i].day, calls[i].timeSec, calls[i].moves)
    /\ IF last'.panic = ""
       THEN /\ submitTx' = txHash
            /\ submitStatus' = "success"
            /\ UNCHANGED submitError
       ELSE /\ submitStatus' = "error"
            /\ submitError' = last'.panic
            /\ UNCHANGED submitTx
    /\ calls' = Settled(i)
    /\ UNCHANGED << game, history_moves, selected, startTime, clock, ui >>

(* The i-th awaited call fails before it reaches the contract (the wallet  *)
(* or the network refuses it): the `catch` of submitResult.                *)
CallFailed(i, message) ==
    /\ i \in DOMAIN calls
    /\ submitStatus' = "error"
    /\ submitError' = message
    /\ calls' = Settled(i)
    /\ UNCHANGED << contractVars, game, history_moves, selected, startTime, clock,
                    submitTx, ui >>

NextClient ==
    \/ \E t \in ClockValues : Tick(t)
    \/ \E a \in BOOLEAN, r \in BOOLEAN, d \in ClientDays : SubmitResultClick(a, r, d)
    \/ \E i \in 1..MaxCalls, h \in TxHashes : CallExecuted(i, h)
    \/ \E i \in 1..MaxCalls, m \in ErrorMessages : CallFailed(i, m)
    \/ \E seed \in GameSeeds : ResetGame(seed)

SpecClient == InitClient /\ [][NextClient]_vars

----------------------------------------------------------------------------
(* Reading the state *)

Epochs == 0..MaxEpoch

DailyLen(ep, d) == MapRead(leaderboard_len, <<ep, d>>, 0)
AllTimeLen(ep) == MapRead(leaderboard_alltime_len, <<ep>>, 0)

(* A board as the function rank -> Entry on the ranks below its stored length. *)
DailyBoard(ep, d) ==
    [i \in 0..(DailyLen(ep, d) - 1) |-> MapRead(leaderboard, <<ep, d, i>>, ZeroEntry)]
AllTimeBoard(ep) ==
    [i \in 0..(AllTimeLen(ep) - 1) |-> MapRead(leaderboard_alltime, <<ep, i>>, ZeroEntry)]

Boards == {DailyBoard(ep, d) : ep \in Epochs, d \in Days} \cup {AllTimeBoard(ep) : ep \in Epochs}

OnBoard(b) == {b[i].player : i \in DOMAIN b}
BestOf(ep, p, d) == MapRead(best_points, <<ep, p, d>>, 0)
BestEntryOf(ep, p, d) == MapRead(best_entry, <<ep, p, d>>, ZeroEntry)
Scored(ep, d) == {p \in Players : BestOf(ep, p, d) > 0}
Min(a, b) == IF a < b THEN a ELSE b
SameKey(a, b) == a.points = b.points /\ a.time_sec = b.time_sec /\ a.moves = b.moves

Submitted == last.op = "submit_result" /\ last.panic = ""
Inserted == Submitted /\ Len(events) = 2

----------------------------------------------------------------------------
(* C1: every daily board and every all-time board has a stored length in   *)
(* 0..10, and no slot beyond rank 9 is ever written.                       *)
C1_BoardsBounded ==
    /\ \A ep \in Epochs : AllTimeLen(ep) \in 0..TopN
    /\ \A ep \in Epochs, d \in Days : DailyLen(ep, d) \in 0..TopN
    /\ \A k \in DOMAIN leaderboard : k[3] \in 0..(TopN - 1)
    /\ \A k \in DOMAIN leaderboard_alltime : k[2] \in 0..(TopN - 1)

(* An entry was inserted into a full board of a day more than 10 players scored on. *)
C1_Witness ==
    /\ Inserted
    /\ last.args[1] = FullDay
    /\ DailyLen(epoch, FullDay) = TopN
    /\ Cardinality(Scored(epoch, FullDay)) > TopN

(* C2: no board holds two entries of the same player below its length.     *)
C2_OnePerPlayer ==
    \A b \in Boards : \A i, j \in DOMAIN b : i < j => b[i].player # b[j].player

(* Player 3, on the day's board from the start, improved and was re-inserted. *)
C2_Witness ==
    /\ Inserted
    /\ budget = MaxFullSubmits - 1
    /\ NoClient
    /\ last.caller = 3
    /\ last.args[1] = FullDay
    /\ Cardinality({i \in DOMAIN DailyBoard(epoch, FullDay) :
                        DailyBoard(epoch, FullDay)[i].player = 3}) = 1

(* C3 as stated: every board is strictly ordered, better_than(entry[i],    *)
(* entry[j]) for all ranks i < j below the length.                         *)
C3_StrictlyOrdered ==
    \A b \in Boards : \A i, j \in DOMAIN b : i < j => better_than(b[i], b[j])

(* C3 amended: no entry is better_than one ranked above it; two entries    *)
(* ranked i < j fail better_than(entry[i], entry[j]) only when they tie on *)
(* points, time and moves.                                                 *)
C3_Ordered ==
    \A b \in Boards : \A i, j \in DOMAIN b :
        i < j => /\ ~better_than(b[j], b[i])
                 /\ better_than(b[i], b[j]) \/ SameKey(b[i], b[j])

(* The caller's new entry was inserted below an entry it fully ties with,  *)
(* and above a worse one.                                                  *)
C3_Witness ==
    /\ Inserted
    /\ LET b == DailyBoard(epoch, last.args[1])
       IN  \E i, j, k \in DOMAIN b :
               /\ i < j /\ j < k
               /\ b[j].player = last.caller
               /\ SameKey(b[i], b[j])
               /\ better_than(b[j], b[k])

(* C4: on every day the board holds the top min(10, n) of the n players'   *)
(* best entries: its length is min(10, n), every entry is its player's     *)
(* best entry of the day (with the player's best_points), and no scored    *)
(* player off the board has a best entry better_than an entry on it.       *)
C4_TopOfBest ==
    \A ep \in Epochs, d \in Days :
        LET b == DailyBoard(ep, d)
        IN  /\ DailyLen(ep, d) = Min(TopN, Cardinality(Scored(ep, d)))
            /\ OnBoard(b) \subseteq Scored(ep, d)
            /\ \A i \in DOMAIN b :
                   /\ b[i].points = BestOf(ep, b[i].player, d)
                   /\ b[i] = BestEntryOf(ep, b[i].player, d)
            /\ \A p \in Scored(ep, d) \ OnBoard(b) : \A i \in DOMAIN b :
                   ~better_than(BestEntryOf(ep, p, d), b[i])

(* Eleven or more players scored on the day, the board is full, and a      *)
(* player with fewer points than every entry of the board is not on it.    *)
C4_Witness ==
    /\ Inserted
    /\ last.args[1] = FullDay
    /\ LET b == DailyBoard(epoch, FullDay)
       IN  /\ Cardinality(Scored(epoch, FullDay)) > TopN
           /\ DailyLen(epoch, FullDay) = TopN
           /\ \E p \in Scored(epoch, FullDay) \ OnBoard(b) :
                  \A i \in DOMAIN b : BestOf(epoch, p, FullDay) < b[i].points

----------------------------------------------------------------------------
ledgerVars ==
    << best_points, best_all_time, points_total, points_by_day, streak, last_day_played >>
boardVars ==
    << leaderboard, leaderboard_len, leaderboard_alltime, leaderboard_alltime_len >>

LastDayOf(ep, p) == MapRead(last_day_played, <<ep, p>>, 0)
StreakOf(ep, p) == MapRead(streak, <<ep, p>>, 0)
AcceptedOf(ep, p) == {a \in accepted : a[1] = ep /\ a[2] = p}

(* The input bounds that calc_points asserts. *)
ValidInput(time_sec, moves) ==
    /\ 0 < time_sec /\ time_sec <= MaxTimeSec
    /\ 0 < moves /\ moves <= MaxMoves

(* C5: a submit_result call whose time_sec or moves is out of bounds is    *)
(* rejected: storage (the caller's streak and last_day_played included)    *)
(* keeps its value and no event is emitted.                                *)
C5_InvalidInputRejected ==
    [][ (last'.op = "submit_result" /\ ~ValidInput(last'.args[2], last'.args[3]))
            => /\ last'.panic # ""
               /\ UNCHANGED storageVars
               /\ events' = <<>> ]_vars

(* An out-of-bounds submission for a day other than the caller's           *)
(* last_day_played (the streak update ran before the validation) was       *)
(* rejected.                                                               *)
C5_Witness ==
    /\ last.op = "submit_result"
    /\ last.panic \in {"BAD_TIME", "TIME_TOO_BIG", "BAD_MOVES", "MOVES_TOO_BIG"}
    /\ last.args[1] # LastDayOf(epoch, last.caller)
    /\ LastDayOf(epoch, last.caller) # 0

(* C6: while paused is set every submit_result call is rejected as PAUSED  *)
(* with storage unchanged, and paused is cleared only by the owner's       *)
(* set_paused(false) or reset_scores.                                      *)
C6_PausedRejects ==
    [][ /\ (paused /\ last'.op = "submit_result")
              => /\ last'.panic = "PAUSED"
                 /\ UNCHANGED storageVars
                 /\ events' = <<>>
        /\ (paused /\ ~paused')
              => /\ last'.panic = ""
                 /\ last'.caller = owner
                 /\ \/ last'.op = "reset_scores"
                    \/ last'.op = "set_paused" /\ last'.args = <<FALSE>> ]_vars

(* A valid submission by a player with a ledger was rejected as PAUSED.    *)
C6_Witness ==
    /\ paused
    /\ last.op = "submit_result"
    /\ last.panic = "PAUSED"
    /\ ValidInput(last.args[2], last.args[3])
    /\ AcceptedOf(epoch, last.caller) # {}

AdminOps == {"set_owner", "set_paused", "upgrade", "reset_scores", "set_daily_seed"}

(* C7: an admin call by anyone but the stored owner is rejected as         *)
(* NOT_OWNER and changes nothing; the owner's call takes effect; the       *)
(* stored owner changes only to the argument of the owner's set_owner.     *)
C7_OwnerOnly ==
    [][ /\ (last'.op \in AdminOps /\ last'.caller # owner)
              => /\ last'.panic = "NOT_OWNER"
                 /\ UNCHANGED storageVars
                 /\ events' = <<>>
        /\ (last'.op \in AdminOps /\ last'.caller = owner)
              => \/ /\ last'.panic = ""
                    /\ last'.op = "set_owner" => owner' = last'.args[1]
                    /\ last'.op = "set_paused" => paused' = last'.args[1]
                    /\ last'.op = "upgrade" => class_hash' = last'.args[1]
                    /\ last'.op = "reset_scores" => epoch' = epoch + 1 /\ paused' = FALSE
                    /\ last'.op = "set_daily_seed"
                           => get_daily_seed(Storage', last'.args[1]) = last'.args[2]
                 \/ /\ last'.op = "upgrade"
                    /\ last'.panic = "UPGRADE_FAILED"
                    /\ UNCHANGED storageVars
        /\ owner' # owner
              => last' = [ op |-> "set_owner", caller |-> owner,
                           args |-> <<owner'>>, panic |-> "" ] ]_vars

(* The constructor's owner, after handing ownership over, was rejected.    *)
C7_Witness ==
    /\ last.panic = "NOT_OWNER"
    /\ last.op \in AdminOps
    /\ last.caller \in Deployers
    /\ owner # last.caller

(* The latest transaction was an accepted submission whose points did not  *)
(* exceed the caller's best of the day before it.                          *)
NotImproving ==
    /\ Submitted'
    /\ SubmittedEvent(events').new_points
           <= BestOf(epoch, SubmittedEvent(events').player, SubmittedEvent(events').day)

(* C8: a submission whose points do not exceed the caller's best of the    *)
(* day reports delta 0, changes no board and emits no LeaderboardUpdated.  *)
C8_NoImprovementKeepsBoards ==
    [][ NotImproving
            => /\ SubmittedEvent(events').delta = 0
               /\ UNCHANGED boardVars
               /\ Len(events') = 1 ]_vars

(* A player on the day's board submitted a score that is not an improvement. *)
C8_Witness ==
    /\ Submitted
    /\ SubmittedEvent(events).delta = 0
    /\ last.caller \in OnBoard(DailyBoard(epoch, last.args[1]))
    /\ DailyLen(epoch, last.args[1]) = 2

(* C9 as stated: with delta = 0 no field of the ledger changes, streak and *)
(* last_day_played included.                                               *)
C9_NoImprovementKeepsLedger ==
    [][ NotImproving => UNCHANGED ledgerVars ]_vars

(* C9 amended: with delta = 0 best_points, best_all_time, points_total and *)
(* points_by_day keep their values; streak and last_day_played keep theirs *)
(* when the day is the caller's last_day_played, and otherwise are         *)
(* advanced by the streak update.                                          *)
C9_NoImprovementKeepsScores ==
    [][ NotImproving =>
            LET p == SubmittedEvent(events').player
                d == SubmittedEvent(events').day
            IN  /\ UNCHANGED << best_points, best_all_time, points_total, points_by_day >>
                /\ d = LastDayOf(epoch, p) => UNCHANGED << streak, last_day_played >>
                /\ d # LastDayOf(epoch, p) =>
                       /\ last_day_played' = MapWrite(last_day_played, <<epoch, p>>, d, 0)
                       /\ streak' = MapWrite(streak, <<epoch, p>>,
                                             IF LastDayOf(epoch, p) = 0
                                             THEN 1 ELSE StreakOf(epoch, p) + 1, 0) ]_vars

(* A third submission, each for another day than the one before, did not   *)
(* improve on the day's best.                                              *)
C9_Witness ==
    /\ Submitted
    /\ SubmittedEvent(events).delta = 0
    /\ StreakOf(epoch, last.caller) = 3
    /\ LastDayOf(epoch, last.caller) = last.args[1]

(* C10 as stated: resubmitting a (day, time_sec, moves) accepted earlier   *)
(* in the epoch yields delta 0 and leaves ledger and boards as they were.  *)
C10_ResubmissionIdempotent ==
    [][ (/\ last'.op = "submit_result"
         /\ last'.panic = ""
         /\ (<<epoch, last'.caller>> \o last'.args) \in accepted)
            => /\ SubmittedEvent(events').delta = 0
               /\ UNCHANGED << ledgerVars, boardVars >> ]_vars

(* C10 amended: resubmitting a (day, time_sec, moves) accepted earlier in  *)
(* the epoch, with no accepted submission of the player for another day in *)
(* between, yields delta 0 and leaves ledger and boards as they were.      *)
C10_ResubmissionSameDayIdempotent ==
    [][ (/\ last'.op = "submit_result"
         /\ SameDay(last'.caller, last'.args[1])
         /\ <<last'.args[2], last'.args[3]>> \in MapRead(run, <<epoch, last'.caller>>, {}))
            => /\ last'.panic = ""
               /\ SubmittedEvent(events').delta = 0
               /\ UNCHANGED storageVars ]_vars

(* The caller's only accepted (day, time_sec, moves) of the epoch was      *)
(* submitted again, on a board shared with another player.                 *)
C10_Witness ==
    /\ Submitted
    /\ SubmittedEvent(events).delta = 0
    /\ AcceptedOf(epoch, last.caller) = {<<epoch, last.caller>> \o last.args}
    /\ DailyLen(epoch, last.args[1]) = 2

----------------------------------------------------------------------------
TotalOf(ep, p) == MapRead(points_total, <<ep, p>>, 0)
DeltaSumOf(ep, p) == MapRead(delta_sum, <<ep, p>>, 0)

(* C11: after every transaction each player's points_total of an epoch is  *)
(* the sum of the deltas reported in the player's ResultSubmitted events   *)
(* of that epoch, and no points_total is lower than before it.             *)
C11_TotalIsSumOfDeltas ==
    [][ /\ points_total' = delta_sum'
        /\ \A k \in DOMAIN points_total :
               MapRead(points_total', k, 0) >= points_total[k] ]_vars

(* After submissions for three days in turn, the last one for a day the    *)
(* player already had a best on, the total is more than the last delta.    *)
C11_Witness ==
    /\ Submitted
    /\ StreakOf(epoch, last.caller) = 3
    /\ SubmittedEvent(events).delta > 0
    /\ SubmittedEvent(events).delta < SubmittedEvent(events).new_points
    /\ TotalOf(epoch, last.caller) > SubmittedEvent(events).new_points
    /\ TotalOf(epoch, last.caller) = DeltaSumOf(epoch, last.caller)

(* C12: no best_points value is ever lower than before a transaction, and  *)
(* one changes only in an accepted submission of that player for that day  *)
(* whose points exceed it.                                                 *)
C12_BestPerDayMonotone ==
    [][ \A k \in DOMAIN best_points \cup DOMAIN best_points' :
            /\ MapRead(best_points', k, 0) >= MapRead(best_points, k, 0)
            /\ MapRead(best_points', k, 0) # MapRead(best_points, k, 0)
                   => /\ Submitted'
                      /\ k = <<epoch, last'.caller, last'.args[1]>>
                      /\ SubmittedEvent(events').new_points = MapRead(best_points', k, 0)
                      /\ SubmittedEvent(events').new_points > MapRead(best_points, k, 0) ]_vars

(* A better result for the same day raised a best that was already set,    *)
(* after a worse one had left it alone.                                    *)
C12_Witness ==
    /\ Submitted
    /\ budget = 0
    /\ NoClient
    /\ StreakOf(epoch, last.caller) = 1
    /\ Cardinality(AcceptedOf(epoch, last.caller)) = 2
    /\ SubmittedEvent(events).delta > 0
    /\ SubmittedEvent(events).delta < SubmittedEvent(events).new_points

----------------------------------------------------------------------------
ResetDone == last.op = "reset_scores" /\ last.panic = ""

(* C13: a reset_scores that succeeds leaves the epoch one greater and      *)
(* paused false, and every read of the new epoch (best, total, both board  *)
(* lengths, and the streak state behind them) gives zero.                  *)
C13_ResetReadsFresh ==
    [][ ResetDone' =>
            /\ get_epoch(Storage') = epoch + 1
            /\ is_paused(Storage') = FALSE
            /\ \A p \in Players, d \in Days : get_my_best(Storage', p, d) = 0
            /\ \A p \in Players : get_my_total(Storage', p) = 0
            /\ \A d \in Days : get_leaderboard_len(Storage', d) = 0
            /\ get_alltime_len(Storage') = 0
            /\ \A p \in Players :
                   /\ MapRead(best_all_time', <<epoch', p>>, 0) = 0
                   /\ MapRead(streak', <<epoch', p>>, 0) = 0
                   /\ MapRead(last_day_played', <<epoch', p>>, 0) = 0 ]_vars

(* The owner reset an epoch in which a player had a total and the all-time *)
(* board an entry.                                                         *)
C13_Witness ==
    /\ ResetDone
    /\ epoch > 0
    /\ \E p \in Players : TotalOf(epoch - 1, p) > 0
    /\ AllTimeLen(epoch - 1) > 0
    /\ \E d \in Days : DailyLen(epoch - 1, d) > 0

(* Map m2 holds what map m holds under every key of an epoch before ep. *)
KeptBefore(m, m2, ep) ==
    \A k \in DOMAIN m \cup DOMAIN m2 :
        k[1] < ep => /\ k \in DOMAIN m
                     /\ k \in DOMAIN m2
                     /\ m[k] = m2[k]

(* C14: reset_scores changes only epoch and paused, and no transaction     *)
(* changes a ledger or board value keyed by an epoch before the current    *)
(* one.                                                                    *)
C14_ResetKeepsOldEpochs ==
    [][ /\ ResetDone' =>
               UNCHANGED << owner, version, class_hash, daily_seed, ledgerVars, boardVars >>
        /\ KeptBefore(best_points, best_points', epoch')
        /\ KeptBefore(best_all_time, best_all_time', epoch')
        /\ KeptBefore(points_total, points_total', epoch')
        /\ KeptBefore(points_by_day, points_by_day', epoch')
        /\ KeptBefore(streak, streak', epoch')
        /\ KeptBefore(last_day_played, last_day_played', epoch')
        /\ KeptBefore(leaderboard, leaderboard', epoch')
        /\ KeptBefore(leaderboard_len, leaderboard_len', epoch')
        /\ KeptBefore(leaderboard_alltime, leaderboard_alltime', epoch')
        /\ KeptBefore(leaderboard_alltime_len, leaderboard_alltime_len', epoch') ]_vars

(* After a reset a player scored on a day they had scored on in the epoch  *)
(* before.                                                                 *)
C14_Witness ==
    /\ Submitted
    /\ epoch > 0
    /\ SubmittedEvent(events).delta > 0
    /\ BestOf(epoch - 1, last.caller, last.args[1]) > 0
    /\ DailyLen(epoch - 1, last.args[1]) > 0
    /\ DailyLen(epoch, last.args[1]) > 0

----------------------------------------------------------------------------
Max(a, b) == IF a > b THEN a ELSE b

(* The score as section 4.1 of the specification gives it. *)
ScoreOf(timeSeconds, moveCount, streak_) ==
    ((10000 + Max(0, 6000 - 2 * timeSeconds) + Max(0, 4000 - 10 * moveCount))
        * (100 + 5 * Min(streak_, 10))) \div 100

ScoredValid == ValidInput(scored.time_sec, scored.moves)

(* C15: for every valid input calc_points returns                          *)
(* floor((10000 + max(0, 6000 - 2t) + max(0, 4000 - 10m))                  *)
(*       * (100 + 5 min(streak, 10)) / 100); 20349 for (60, 50, 1).        *)
C15_ScoreFormula ==
    /\ ScoredValid =>
           /\ scored.res.panic = ""
           /\ scored.res.value = ScoreOf(scored.time_sec, scored.moves, scored.streak)
    /\ (scored.time_sec = 60 /\ scored.moves = 50 /\ scored.streak = 1)
           => scored.res.value = 20349

(* calc_points(60, 50, 1) was called and returned. *)
C15_Witness ==
    /\ scored.time_sec = 60 /\ scored.moves = 50 /\ scored.streak = 1
    /\ scored.res.panic = ""
    /\ scored.res.value > 0

(* C16: calc_points is a function of its arguments; over valid inputs a    *)
(* longer time never gives more points, more moves never give more points, *)
(* and a higher streak never gives fewer.                                  *)
C16_ScoreMonotone ==
    ScoredValid =>
        /\ scored.res = calc_points(scored.time_sec, scored.moves, scored.streak)
        /\ \A t \in ScoreTimes :
               (ValidInput(t, scored.moves) /\ t >= scored.time_sec)
                   => calc_points(t, scored.moves, scored.streak).value <= scored.res.value
        /\ \A m \in ScoreMoves :
               (ValidInput(scored.time_sec, m) /\ m >= scored.moves)
                   => calc_points(scored.time_sec, m, scored.streak).value <= scored.res.value
        /\ \A s \in ScoreStreaks :
               s >= scored.streak
                   => calc_points(scored.time_sec, scored.moves, s).value >= scored.res.value

(* A call with a longer time, one with more moves and one with a higher    *)
(* streak each give a different score than the call made.                  *)
C16_Witness ==
    /\ ScoredValid
    /\ \E t \in ScoreTimes :
           /\ ValidInput(t, scored.moves) /\ t > scored.time_sec
           /\ calc_points(t, scored.moves, scored.streak).value < scored.res.value
    /\ \E m \in ScoreMoves :
           /\ ValidInput(scored.time_sec, m) /\ m > scored.moves
           /\ calc_points(scored.time_sec, m, scored.streak).value < scored.res.value
    /\ \E s \in ScoreStreaks :
           /\ s > scored.streak
           /\ calc_points(scored.time_sec, scored.moves, s).value > scored.res.value

(* C17: for every valid input no step of calc_points leaves the range of   *)
(* its type: neither bonus goes below 0 (the subtraction happens only      *)
(* under its guard), the multiplier is in 100..150, the sum is at most     *)
(* 20000, the product at most 3000000 (far below 2^64), and the result is  *)
(* in 10000..30000.                                                        *)
C17_ScoreInRange ==
    ScoredValid =>
        /\ scored.res.panic = ""
        /\ scored.res.time_penalty = 2 * scored.time_sec
        /\ scored.res.move_penalty = 10 * scored.moves
        /\ scored.res.tb2 \in 0..6000
        /\ scored.res.mb2 \in 0..4000
        /\ scored.res.time_penalty >= 6000 => scored.res.tb2 = 0
        /\ scored.res.move_penalty >= 4000 => scored.res.mb2 = 0
        /\ scored.res.mult \in 100..150
        /\ scored.res.sum \in 10000..20000
        /\ scored.res.product \in 0..3000000
        /\ scored.res.value \in 10000..30000

(* calc_points was called with the largest valid time, the largest valid   *)
(* move count and the largest streak.                                      *)
C17_Witness ==
    /\ scored.time_sec = MaxTimeSec
    /\ scored.moves = MaxMoves
    /\ scored.streak = U16Max
    /\ scored.res.panic = ""
    /\ scored.res.mult = 150

----------------------------------------------------------------------------
(* C18: every accepted submit_result emits exactly one ResultSubmitted; it *)
(* carries the call's player, day, time and moves, its delta is the        *)
(* increase of the caller's best_points of the day in this call, and its   *)
(* total_points is the caller's points_total after the call.               *)
C18_ResultSubmittedReportsLedger ==
    [][ Submitted' =>
            LET ev == SubmittedEvent(events')
                p == last'.caller
                d == last'.args[1]
            IN  /\ Cardinality({i \in 1..Len(events') :
                                    events'[i].type = "ResultSubmitted"}) = 1
                /\ ev.type = "ResultSubmitted"
                /\ ev.player = p /\ ev.day = d
                /\ ev.time_sec = last'.args[2] /\ ev.moves = last'.args[3]
                /\ ev.delta = MapRead(best_points', <<epoch, p, d>>, 0) - BestOf(epoch, p, d)
                /\ ev.total_points = MapRead(points_total', <<epoch, p>>, 0) ]_vars

(* A submission raised a best that was already set and moved the caller's  *)
(* entry on the board: two events, one of them ResultSubmitted.            *)
C18_Witness ==
    /\ Submitted
    /\ Len(events) = 2
    /\ events[1].type = "LeaderboardUpdated"
    /\ SubmittedEvent(events).delta > 0
    /\ SubmittedEvent(events).delta < SubmittedEvent(events).new_points
    /\ SubmittedEvent(events).total_points > SubmittedEvent(events).new_points
    /\ StreakOf(epoch, last.caller) = 2

(* C19 as stated: the first accepted submission of a player in the epoch,  *)
(* for any day whose board is empty, is scored with streak 1: delta, best  *)
(* and total all equal calc_points(time_sec, moves, 1) and the entry is at *)
(* rank 0 of the day's board.                                              *)
C19_FirstSubmissionStreakOne ==
    [][ (/\ Submitted'
         /\ AcceptedOf(epoch, last'.caller) = {}
         /\ DailyLen(epoch, last'.args[1]) = 0)
            => LET p == last'.caller
                   d == last'.args[1]
                   v == calc_points(last'.args[2], last'.args[3], 1).value
               IN  /\ SubmittedEvent(events').new_points = v
                   /\ SubmittedEvent(events').delta = v
                   /\ MapRead(best_points', <<epoch, p, d>>, 0) = v
                   /\ MapRead(points_total', <<epoch, p>>, 0) = v
                   /\ MapRead(leaderboard_len', <<epoch, d>>, 0) = 1
                   /\ MapRead(leaderboard', <<epoch, d, 0>>, ZeroEntry)
                          = Entry(p, v, last'.args[2], last'.args[3]) ]_vars

----------------------------------------------------------------------------
(* C21: the new_points that ResultSubmitted reports are calc_points of the *)
(* call's time and moves and the caller's streak as stored after the call, *)
(* and that is the streak calc_points was called with.                     *)
C21_ScoredWithUpdatedStreak ==
    [][ Submitted' =>
            /\ SubmittedEvent(events').new_points
                   = calc_points(last'.args[2], last'.args[3],
                                 MapRead(streak', <<epoch, last'.caller>>, 0)).value
            /\ scored'.streak = MapRead(streak', <<epoch, last'.caller>>, 0)
            /\ scored'.res.value = SubmittedEvent(events').new_points ]_vars

(* A submission for a second day raised the streak from 1 to 2 and was     *)
(* scored with 2, which gives more points than 1.                          *)
C21_Witness ==
    /\ Submitted
    /\ MapRead(day_runs, <<epoch, last.caller>>, <<>>) = <<1, 2>>
    /\ StreakOf(epoch, last.caller) = 2
    /\ scored.streak = 2
    /\ SubmittedEvent(events).new_points
           > calc_points(last.args[2], last.args[3], 1).value

----------------------------------------------------------------------------
DayRunsOf(ep, p) == MapRead(day_runs, <<ep, p>>, <<>>)
DaysOf(ep, p) == {a[3] : a \in AcceptedOf(ep, p)}

(* C22 as stated: a player's streak is the number of distinct days the     *)
(* player has submitted in the epoch.                                      *)
C22_StreakCountsDistinctDays ==
    \A p \in Players : StreakOf(epoch, p) = Cardinality(DaysOf(epoch, p))

(* The streak that a sequence of days, each other than the one before it,  *)
(* leaves: the number of days from the latest one that came first or just  *)
(* after a day 0; a single day 0 leaves 0.                                 *)
RunStreak(runs) ==
    IF runs = <<>> \/ runs = <<0>> THEN 0
    ELSE LET starts == {i \in 1..Len(runs) : i = 1 \/ runs[i - 1] = 0}
             j == CHOOSE i \in starts : \A k \in starts : k <= i
         IN  Len(runs) - j + 1

(* C22 amended: a player's streak is the number of the player's accepted   *)
(* submissions for a day other than that of the accepted submission before *)
(* it (a day returned to counts again), counted from the latest one that   *)
(* was the first or followed a submission for day 0; it is the length of   *)
(* the whole sequence when no day is 0, and never below the number of      *)
(* distinct days then.                                                     *)
C22_StreakCountsDayChanges ==
    \A p \in Players :
        /\ StreakOf(epoch, p) = RunStreak(DayRunsOf(epoch, p))
        /\ 0 \notin DaysOf(epoch, p) =>
               /\ StreakOf(epoch, p) = Len(DayRunsOf(epoch, p))
               /\ StreakOf(epoch, p) >= Cardinality(DaysOf(epoch, p))

(* The caller submitted for days 1, 2 and 1 again: streak 3, two days.     *)
C22_Witness ==
    /\ Submitted
    /\ DayRunsOf(epoch, last.caller) = <<1, 2, 1>>
    /\ StreakOf(epoch, last.caller) = 3
    /\ Cardinality(DaysOf(epoch, last.caller)) = 2

(* C23 as stated: a player's last_day_played is 0 exactly when the player  *)
(* has no accepted submission in the epoch.                                *)
C23_LastDayZeroIffNeverPlayed ==
    \A p \in Players : LastDayOf(epoch, p) = 0 <=> AcceptedOf(epoch, p) = {}

----------------------------------------------------------------------------
(* Higher points, then lower time, then lower moves. *)
Preferred(a, b) ==
    \/ a.points > b.points
    \/ a.points = b.points /\ a.time_sec < b.time_sec
    \/ a.points = b.points /\ a.time_sec = b.time_sec /\ a.moves < b.moves

(* C24: better_than is irreflexive, asymmetric and transitive, it prefers  *)
(* higher points, then lower time, then lower moves, and of two entries    *)
(* exactly one is better than the other unless they agree on points, time  *)
(* and moves, and then neither is.                                         *)
C24_BetterThanTotalOrder ==
    /\ ~compared.aa
    /\ ~(compared.ab /\ compared.ba)
    /\ (compared.ab /\ compared.bc) => compared.ac
    /\ compared.ab <=> Preferred(compared.a, compared.b)
    /\ compared.ba <=> Preferred(compared.b, compared.a)
    /\ IF SameKey(compared.a, compared.b)
       THEN ~compared.ab /\ ~compared.ba
       ELSE compared.ab # compared.ba

(* a beats b on moves alone, b beats c on points, and a beats c. *)
C24_Witness ==
    /\ compared.a.points = compared.b.points
    /\ compared.a.time_sec = compared.b.time_sec
    /\ compared.a.moves < compared.b.moves
    /\ compared.b.points > compared.c.points
    /\ compared.ab /\ compared.bc /\ compared.ac
    /\ ~compared.ba

----------------------------------------------------------------------------
(* Boards as sequences, best first, and the insertion of section 4.3 of    *)
(* the specification on them.                                              *)

BoardSeq(lb, lens, pfx) ==
    [i \in 1..MapRead(lens, pfx, 0) |-> MapRead(lb, Append(pfx, i - 1), ZeroEntry)]
DailySeq(ep, d) == BoardSeq(leaderboard, leaderboard_len, <<ep, d>>)
AllTimeSeq(ep) == BoardSeq(leaderboard_alltime, leaderboard_alltime_len, <<ep>>)
(* The same boards after the step. *)
DailySeqNext(ep, d) == BoardSeq(leaderboard', leaderboard_len', <<ep, d>>)
AllTimeSeqNext(ep) == BoardSeq(leaderboard_alltime', leaderboard_alltime_len', <<ep>>)

Without(seq, p) == LET other(x) == x.player # p IN SelectSeq(seq, other)
InsertAt(seq, i, e) == SubSeq(seq, 1, i - 1) \o <<e>> \o SubSeq(seq, i, Len(seq))
Cap(seq) == SubSeq(seq, 1, Min(Len(seq), TopN))
RanksOf(seq, e) == {i \in 1..Len(seq) : seq[i] = e}
First(ranks) == IF ranks = {} THEN 0 ELSE CHOOSE i \in ranks : \A k \in ranks : i <= k

(* The first rank whose occupant is not better than e, and the first rank  *)
(* whose occupant e is better than; 0 if there is none.                    *)
FirstNotBetter(seq, e) == First({i \in 1..Len(seq) : ~better_than(seq[i], e)})
FirstBeaten(seq, e) == First({i \in 1..Len(seq) : better_than(e, seq[i])})

(* The latest transaction is a submission that improved the caller's best  *)
(* of the day, so both upserts ran with NewEntry.                          *)
Upserted == Submitted /\ SubmittedEvent(events).delta > 0
NewEntry ==
    Entry(last.caller, SubmittedEvent(events).new_points, last.args[2], last.args[3])

(* C25 as stated: the new entry goes to the first rank whose occupant is   *)
(* not better_than it, the tail moves down one rank and what passes rank 9 *)
(* is dropped.                                                             *)
C25_InsertAtFirstNotBetter ==
    [][ Upserted' =>
            LET e == NewEntry'
                rd == Without(DailySeq(epoch, last'.args[1]), last'.caller)
                ra == Without(AllTimeSeq(epoch), last'.caller)
            IN  /\ FirstNotBetter(rd, e) # 0 =>
                       DailySeqNext(epoch, last'.args[1]) = Cap(InsertAt(rd, FirstNotBetter(rd, e), e))
                /\ FirstNotBetter(ra, e) # 0 =>
                       AllTimeSeqNext(epoch) = Cap(InsertAt(ra, FirstNotBetter(ra, e), e)) ]_vars

(* C25 amended: the new entry goes to the first rank whose occupant it is  *)
(* better_than (after the entries it ties with), the tail moves down one   *)
(* rank and what passes rank 9 is dropped.                                 *)
C25_InsertAtFirstBeaten ==
    [][ Upserted' =>
            LET e == NewEntry'
                rd == Without(DailySeq(epoch, last'.args[1]), last'.caller)
                ra == Without(AllTimeSeq(epoch), last'.caller)
            IN  /\ FirstBeaten(rd, e) # 0 =>
                       DailySeqNext(epoch, last'.args[1]) = Cap(InsertAt(rd, FirstBeaten(rd, e), e))
                /\ FirstBeaten(ra, e) # 0 =>
                       AllTimeSeqNext(epoch) = Cap(InsertAt(ra, FirstBeaten(ra, e), e)) ]_vars

(* A new player's entry went to rank 2 of a full board, below an entry it  *)
(* ties with, and the board's last entry was dropped.                      *)
C25_Witness ==
    /\ Inserted
    /\ last.caller \in {1, 2}
    /\ budget = MaxFullSubmits - 1
    /\ NoClient
    /\ events[1].idx = 2
    /\ SameKey(DailySeq(epoch, FullDay)[2], DailySeq(epoch, FullDay)[3])
    /\ DailyLen(epoch, FullDay) = TopN
    /\ Cardinality(Scored(epoch, FullDay)) > TopN

----------------------------------------------------------------------------
(* The ranks of seq held by another player's entry that ties with e. *)
TiedRanks(seq, e) ==
    {i \in 1..Len(seq) : seq[i].player # e.player /\ SameKey(seq[i], e)}

(* Every entry at one of the ranks is at the same rank of after, and e is  *)
(* at no rank of after up to it.                                           *)
TiesKept(before, after, ranks, e) ==
    \A i \in ranks :
        /\ i <= Len(after)
        /\ after[i] = before[i]
        /\ \A k \in RanksOf(after, e) : k > i

----------------------------------------------------------------------------
PlayersOn(seq) == {seq[i].player : i \in 1..Len(seq)}

(* The upsert of e on a board that held an entry of e's player: same       *)
(* length, e at exactly one rank and no other entry of the player, the     *)
(* other players' entries as before and in the same order.                 *)
Replaced(before, after, e) ==
    /\ Len(after) = Len(before)
    /\ Cardinality(RanksOf(after, e)) = 1
    /\ Cardinality({i \in 1..Len(after) : after[i].player = e.player}) = 1
    /\ Without(after, e.player) = Without(before, e.player)

(* C27: when the player has an entry on a board, the upsert of the         *)
(* player's new entry goes through (LeaderboardUpdated on the daily        *)
(* board), keeps the stored length, removes the old entry, stores the new  *)
(* one at exactly one rank and keeps the other entries in their order.     *)
C27_ReplaceOwnEntry ==
    [][ Upserted' =>
            LET e == NewEntry'
                d == last'.args[1]
            IN  /\ e.player \in PlayersOn(DailySeq(epoch, d)) =>
                       /\ Replaced(DailySeq(epoch, d), DailySeqNext(epoch, d), e)
                       /\ Len(events') = 2
                       /\ DailySeqNext(epoch, d)[events'[1].idx + 1] = e
                /\ e.player \in PlayersOn(AllTimeSeq(epoch)) =>
                       Replaced(AllTimeSeq(epoch), AllTimeSeqNext(epoch), e) ]_vars

(* Player 3, last on the full board of the day, improved and went to rank  *)
(* 2; the board is still full.                                             *)
C27_Witness ==
    /\ Inserted
    /\ last.caller = 3
    /\ last.args[1] = FullDay
    /\ events[1].idx = 2
    /\ DailySeq(epoch, FullDay)[3] = NewEntry
    /\ DailyLen(epoch, FullDay) = TopN
    /\ Cardinality(Scored(epoch, FullDay)) = TopN

----------------------------------------------------------------------------
(* The upsert of e on a board (sequence before, after) of other players    *)
(* where e beats no entry: a board of 10 is left as it is, a shorter one   *)
(* gets e at its end.                                                      *)
DiscardedOrAppended(before, after, e) ==
    (e.player \notin PlayersOn(before) /\ FirstBeaten(before, e) = 0) =>
        IF Len(before) = TopN THEN after = before ELSE after = Append(before, e)

(* C28: a new entry that beats none of the 10 entries of other players on  *)
(* a board is discarded, the board keeps its entries and length and the    *)
(* daily upsert emits no LeaderboardUpdated, while the player's ledger is  *)
(* updated; on a board of fewer than 10 it is appended at the end.         *)
C28_DiscardOrAppend ==
    [][ Upserted' =>
            LET e == NewEntry'
                d == last'.args[1]
                bd == DailySeq(epoch, d)
            IN  /\ DiscardedOrAppended(bd, DailySeqNext(epoch, d), e)
                /\ DiscardedOrAppended(AllTimeSeq(epoch), AllTimeSeqNext(epoch), e)
                /\ (e.player \notin PlayersOn(bd) /\ FirstBeaten(bd, e) = 0) =>
                       /\ Len(bd) = TopN =>
                              /\ Len(events') = 1
                              /\ UNCHANGED << leaderboard, leaderboard_len >>
                       /\ Len(bd) < TopN =>
                              /\ Len(events') = 2
                              /\ events'[1].idx = Len(bd)
                /\ MapRead(best_points', <<epoch, e.player, d>>, 0) = e.points
                /\ MapRead(points_total', <<epoch, e.player>>, 0)
                       = TotalOf(epoch, e.player) + SubmittedEvent(events').delta ]_vars

(* A new player's score for the full day was recorded in the ledger and    *)
(* the player is on neither board.                                         *)
C28_Witness ==
    /\ Upserted
    /\ Len(events) = 1
    /\ last.args[1] = FullDay
    /\ DailyLen(epoch, FullDay) = TopN
    /\ AllTimeLen(epoch) = TopN
    /\ last.caller \notin PlayersOn(DailySeq(epoch, FullDay))
    /\ last.caller \notin PlayersOn(AllTimeSeq(epoch))
    /\ BestOf(epoch, last.caller, FullDay) = NewEntry.points

----------------------------------------------------------------------------
(* C29: an accepted submission emits LeaderboardUpdated exactly when its   *)
(* entry went into the board of its day, and then once, with the call's    *)
(* day, the caller, the new points and the rank at which the board holds   *)
(* the entry after the transaction.                                        *)
C29_LeaderboardUpdatedIffInserted ==
    [][ Submitted' =>
            LET d == last'.args[1]
                e == NewEntry'
                went_in == /\ Upserted'
                           /\ RanksOf(DailySeqNext(epoch, d), e) # {}
                lus == {i \in 1..Len(events') : events'[i].type = "LeaderboardUpdated"}
            IN  /\ lus # {} <=> went_in
                /\ ~went_in => DailySeqNext(epoch, d) = DailySeq(epoch, d)
                /\ went_in =>
                       /\ lus = {1}
                       /\ events'[1] = LeaderboardUpdated(d, events'[1].idx,
                                                          last'.caller, e.points)
                       /\ events'[1].idx \in 0..(TopN - 1)
                       /\ MapRead(leaderboard', <<epoch, d, events'[1].idx>>, ZeroEntry) = e
                       /\ RanksOf(DailySeqNext(epoch, d), e) = {events'[1].idx + 1} ]_vars

(* A new player's entry was appended at rank 9 and reported there. *)
C29_Witness ==
    /\ Inserted
    /\ events[1].idx = TopN - 1
    /\ last.caller \in {1, 2}
    /\ budget = MaxFullSubmits - 1
    /\ NoClient
    /\ MapRead(leaderboard, <<epoch, last.args[1], TopN - 1>>, ZeroEntry) = NewEntry

----------------------------------------------------------------------------
BestEverOf(ep, p) == MapRead(best_all_time, <<ep, p>>, 0)
MaxOf(values) == CHOOSE x \in values : \A y \in values : y <= x

(* C30: after every transaction each player's best_all_time of an epoch is *)
(* the largest of the player's best_points of the epoch's days (0 if there *)
(* is none), and it is never lower than before the transaction.            *)
C30_BestEverIsMaxOfDays ==
    [][ \A ep \in Epochs, p \in Players :
            /\ MapRead(best_all_time', <<ep, p>>, 0)
                   = MaxOf({0} \cup {MapRead(best_points', <<ep, p, d>>, 0) : d \in Days})
            /\ MapRead(best_all_time', <<ep, p>>, 0) >= BestEverOf(ep, p) ]_vars

(* The caller set the best of a second day with fewer points than the      *)
(* best of the first; best_all_time is still that of the first.            *)
C30_Witness ==
    /\ Upserted
    /\ Cardinality({d \in Days : BestOf(epoch, last.caller, d) > 0}) = 2
    /\ BestEverOf(epoch, last.caller) > NewEntry.points
    /\ BestOf(epoch, last.caller, last.args[1]) = NewEntry.points

----------------------------------------------------------------------------
(* C31: every entry of the current epoch's all-time board carries its      *)
(* player's best_all_time as points: a submission that improves only the   *)
(* best of another day does not put a lower score in the entry's place.    *)
C31_AllTimeEntryIsBestEver ==
    \A i \in DOMAIN AllTimeBoard(epoch) :
        AllTimeBoard(epoch)[i].points = BestEverOf(epoch, AllTimeBoard(epoch)[i].player)

----------------------------------------------------------------------------
RECURSIVE SumOfBest(_, _, _)
(* The sum of the player's best_points over the days of a set. *)
SumOfBest(ep, p, days) ==
    IF days = {} THEN 0
    ELSE LET d == CHOOSE x \in days : TRUE
         IN  BestOf(ep, p, d) + SumOfBest(ep, p, days \ {d})

PointsByDayOf(ep, p, d) == MapRead(points_by_day, <<ep, p, d>>, 0)

(* C32: in every epoch each player's points_total is the sum of the        *)
(* player's best_points over all days, and points_by_day of each day       *)
(* equals best_points of that day.                                         *)
C32_TotalIsSumOfBests ==
    \A ep \in Epochs, p \in Players :
        /\ TotalOf(ep, p) = SumOfBest(ep, p, Days)
        /\ \A d \in Days : PointsByDayOf(ep, p, d) = BestOf(ep, p, d)

(* The caller has a best on two days and has just raised one of them from  *)
(* a lower best, so the total grew by less than the new score.             *)
C32_Witness ==
    /\ Upserted
    /\ Cardinality({d \in Days : BestOf(epoch, last.caller, d) > 0}) = 2
    /\ SubmittedEvent(events).delta < NewEntry.points
    /\ TotalOf(epoch, last.caller) > NewEntry.points

----------------------------------------------------------------------------
(* Map m2 holds what map m holds under every key outside the set keys. *)
KeptOutside(m, m2, keys) ==
    \A k \in (DOMAIN m \cup DOMAIN m2) \ keys :
        /\ k \in DOMAIN m
        /\ k \in DOMAIN m2
        /\ m[k] = m2[k]

(* The keys of the two maps whose player (second component) is p, and the  *)
(* keys whose player is p and whose day (third component) is d.            *)
KeysOfPlayer(m, m2, p) == {k \in DOMAIN m \cup DOMAIN m2 : k[2] = p}
KeysOfPlayerDay(m, m2, p, d) == {k \in DOMAIN m \cup DOMAIN m2 : k[2] = p /\ k[3] = d}
(* The keys of the daily boards of day d. *)
KeysOfDay(m, m2, d) == {k \in DOMAIN m \cup DOMAIN m2 : k[2] = d}

(* C33: a submit_result transaction of player P for day D leaves alone, in *)
(* every epoch, the best_points, best_all_time, points_total, streak and   *)
(* last_day_played of every other player, P's best_points of every other   *)
(* day and the daily board of every other day, and it leaves owner,        *)
(* paused, epoch and daily_seed unchanged.                                 *)
C33_SubmitFrame ==
    [][ last'.op = "submit_result" =>
          LET P == last'.caller
              D == last'.args[1]
          IN  /\ KeptOutside(best_points, best_points',
                             KeysOfPlayerDay(best_points, best_points', P, D))
              /\ KeptOutside(best_all_time, best_all_time',
                             KeysOfPlayer(best_all_time, best_all_time', P))
              /\ KeptOutside(points_total, points_total',
                             KeysOfPlayer(points_total, points_total', P))
              /\ KeptOutside(streak, streak', KeysOfPlayer(streak, streak', P))
              /\ KeptOutside(last_day_played, last_day_played',
                             KeysOfPlayer(last_day_played, last_day_played', P))
              /\ KeptOutside(leaderboard, leaderboard',
                             KeysOfDay(leaderboard, leaderboard', D))
              /\ KeptOutside(leaderboard_len, leaderboard_len',
                             KeysOfDay(leaderboard_len, leaderboard_len', D))
              /\ UNCHANGED << owner, paused, epoch, daily_seed >> ]_vars

(* After a reset and with a seed set, the caller improved a day while the  *)
(* other player has a ledger and a board entry of another day, and the     *)
(* caller has a best of another day too.                                   *)
C33_Witness ==
    /\ Upserted
    /\ epoch > 0
    /\ daily_seed # EmptyMap
    /\ \E p \in Players \ {last.caller}, d \in Days \ {last.args[1]} :
           /\ BestOf(epoch, p, d) > 0
           /\ StreakOf(epoch, p) > 0
           /\ p \in OnBoard(DailyBoard(epoch, d))

----------------------------------------------------------------------------
(* C34: no transaction lowers the streak a player has in an epoch,         *)
(* whatever days the callers pass.                                         *)
C34_StreakNeverDecreases ==
    [][ \A ep \in Epochs, p \in Players :
            MapRead(streak', <<ep, p>>, 0) >= StreakOf(ep, p) ]_vars

----------------------------------------------------------------------------
(* C35: a submit_result call made while the contract is not paused, with   *)
(* time_sec and moves inside the bounds of calc_points, does not revert,   *)
(* whatever the caller's streak: the addition `cur + 1_u16` of             *)
(* update_streak does not overflow.                                        *)
C35_ValidSubmitNeverRejected ==
    [][ ( /\ last'.op = "submit_result"
          /\ ~paused
          /\ ValidInput(last'.args[2], last'.args[3]) )
        => last'.panic = "" ]_vars

----------------------------------------------------------------------------
(* C36: for time_sec in 1..86400, moves in 1..500 and a streak in 0..10,   *)
(* the client's calcSessionScore returns what calc_points returns.         *)
C36_ClientScoreMatches ==
    ( /\ scored # NoCall
      /\ scored.time_sec \in 1..MaxTimeSec
      /\ scored.moves \in 1..MaxMoves
      /\ scored.streak \in 0..10 )
    => /\ scored.res.panic = ""
       /\ calcSessionScore(scored.time_sec, scored.moves, scored.streak) = scored.res.value

(* calc_points was applied to arguments in these ranges for which the      *)
(* product sum * mult is not a multiple of 100, with both bonuses and the  *)
(* streak multiplier in effect.                                            *)
C36_Witness ==
    /\ scored # NoCall
    /\ scored.res.panic = ""
    /\ scored.streak \in 1..10
    /\ scored.res.tb2 > 0
    /\ scored.res.mb2 > 0
    /\ scored.res.product % 100 # 0
    /\ calcSessionScore(scored.time_sec, scored.moves, scored.streak) = scored.res.value

----------------------------------------------------------------------------
RECURSIVE Flatten(_)
(* The cards of a sequence of piles, as one sequence. *)
Flatten(piles) ==
    IF piles = <<>> THEN <<>> ELSE piles[1] \o Flatten(SubSeq(piles, 2, Len(piles)))

(* The cards of the four kinds of pile of a game, and the cards of the deck. *)
PileCards(state) ==
    state.stock \o state.waste \o Flatten(state.foundations) \o Flatten(state.tableau)
DeckCards == {<<RANKS[r], SUITS[s]>> : r \in DOMAIN RANKS, s \in DOMAIN SUITS}

(* C38: in every state of the game each card of the deck lies in exactly   *)
(* one place of stock, waste, foundations and tableau.                     *)
C38_CardsConserved ==
    LET cards == PileCards(game)
    IN  /\ Len(cards) = Cardinality(DeckCards)
        /\ {<<cards[i].rank, cards[i].suit>> : i \in DOMAIN cards} = DeckCards

(* While a card of a column was selected, a click on another card of the   *)
(* same column or on the column made the page ask canMoveToTableau for a   *)
(* move from the column to itself; no move was made.  The column holds a   *)
(* run of two face-up cards or more, and a foundation holds a card.        *)
C38_Witness ==
    /\ ui.tried
    /\ ~ui.moved
    /\ ui.from.type = "tableau"
    /\ ui.to.type = "tableau"
    /\ ui.from.index = ui.to.index
    /\ LET column == game.tableau[ui.from.index + 1]
       IN  /\ Len(column) >= 2
           /\ column[Len(column) - 1].faceUp
           /\ ui.from.cardIndex = Len(column) - 2
    /\ \E f \in DOMAIN game.foundations : Len(game.foundations[f]) > 0

----------------------------------------------------------------------------
(* C37: every call the page has handed to the wallet carries a timeSec and *)
(* a moves inside the bounds of calc_points (0 < timeSec <= 86400 and      *)
(* 0 < moves <= 500), and no call of the page that the contract runs is    *)
(* turned down with TIME_ZERO, TIME_TOO_BIG, MOVES_ZERO or MOVES_TOO_BIG.   *)
C37_ClientInputInBounds ==
    /\ \A i \in DOMAIN calls : ValidInput(calls[i].timeSec, calls[i].moves)
    /\ (ui.op = "submitResult" /\ last.op = "submit_result")
          => last.panic \notin {"TIME_ZERO", "TIME_TOO_BIG", "MOVES_ZERO", "MOVES_TOO_BIG"}

----------------------------------------------------------------------------
(* C39: from resetGame until the next click on the submit button the page  *)
(* shows submitStatus 'idle' and no transaction hash, also when a call     *)
(* awaited since the game before is answered in between.                   *)
C39_IdleAfterReset ==
    ui.op = "resetGame" => (submitStatus = "idle" /\ submitTx = Null)

====
